---- MODULE Spec2Model ----
(***************************************************************************)
(* Model of the VElectric Load Manager integration:                        *)
(*   - VElectricWebSocketClient (websocket_client.py): connect,            *)
(*     disconnect, get_readings, the poll loop (_ping_loop) and the        *)
(*     receive loop (_message_handler);                                    *)
(*   - VElectricDataUpdateCoordinator (__init__.py): _async_update_data    *)
(*     (the fetch) and async_shutdown.                                     *)
(*                                                                         *)
(* The program runs on one asyncio event loop: exactly one coroutine runs  *)
(* at a time, from one suspension point (an await that really suspends) to *)
(* the next.  Every action below is one such run-to-suspension segment, or *)
(* a part of one; "cur" names the caller that is in the middle of a        *)
(* segment (0 when the event loop is free to schedule anyone), so that the *)
(* parts of one segment are never interleaved with other coroutines.       *)
(***************************************************************************)
EXTENDS Integers, Sequences, FiniteSets

\* ---------------------------------------------------------------- bounds
MaxClients  == 2   \* clients the coordinator may create in one behaviour
MaxWs       == 2   \* transports websockets.connect may open in one behaviour
MaxTime     == 1   \* the clock (time.time(), whole seconds) stops advancing here
MaxFailures == 2   \* no new fetch starts once _connection_failures reached this
MaxReading  == 1   \* distinct readings frames the device may push
NumCallers  == 2   \* coroutines calling into the coordinator concurrently
MaxFrameLen   == 15  \* inbound frames are 0..MaxFrameLen bytes long
MaxStatusByte == 4   \* status bytes are 0..MaxStatusByte, and 255
MaxSeed       == 2   \* distinct settings frames, numbered 0..MaxSeed
MaxCounted    == 11  \* sequential fetches stop once this many failures are counted
MaxClockExp   == 9   \* the clock of the sequential fetches reaches 2^MaxClockExp
MaxHours      == 2   \* the energy sensor's clock shows 0..MaxHours whole hours
MaxTotal      == 1   \* the energy sensor is sampled while below MaxTotal kWh

\* ------------------------------------------------------ program constants
MaxBackoff == 300  \* __init__.py:124, "Max 5 minutes"
WS_REQUEST_BYTE == 103  \* const.py:24
PACKET_SIZE == 14  \* const.py:25
DEFAULT_VOLTAGE == 240  \* const.py:17
\* One kWh in the units of energy_total: halves (sensor.py:354) of a tenth
\* of a watt, times seconds (3600 to the hour, line 351; 1000 W to the kW,
\* line 357).
KWH == 2 * 10 * 3600 * 1000

\* Coroutines that call into the coordinator concurrently (the host's
\* scheduled refresh, a requested refresh, the unload of the entry).
Callers    == 1..NumCallers
Clients    == 1..MaxClients
Transports == 1..MaxWs
Readings   == 1..MaxReading

\* ConnectionStatus (websocket_client.py:21-24)
DISCONNECTED == "disconnected"
CONNECTING   == "connecting"
CONNECTED    == "connected"

VARIABLES
  client,            \* coordinator._client: 0 is None, else a client id
  nclients,          \* number of VElectricWebSocketClient objects constructed
  failures,          \* coordinator._connection_failures
  last_attempt,      \* coordinator._last_connection_attempt
  now,               \* time.time()
  shutdown,          \* async_shutdown has been called (the entry is unloading)
  cli,               \* the client objects: cli[c] is a record of its fields
  ws,                \* the transports: ws[w].state, ws[w].owner
  task,              \* the two loop tasks created together with transport w
  call,              \* the callers' coroutines: position and locals
  nws,               \* number of transports opened so far
  cur,               \* the caller in the middle of a segment, or 0
  notified,          \* the on_status_change notification of the last step
  rxcli,             \* one connected client, with the fields inbound frames set
  rx,                \* its receive loop: position, and the message last taken
  rxnote,            \* the observer callbacks the receive loop called in
                     \* its last step
  snap,              \* what the last get_state_dict() or get_readings() on
                     \* that client returned to its caller
  dec,               \* the last call of decode_currents: its packet and result
  seqfetch,          \* the last fetch of a coordinator whose fetches run one
                     \* after the other: how it ended, and what it found
  sensor,            \* one VElectricEnergySensor: its fields
  hass               \* what that sensor reads: time.time(), coordinator.data,
                     \* the configured voltage

\* The variables of the connection life cycle, and those of frame processing.
connVars == <<client, nclients, failures, last_attempt, now, shutdown,
              cli, ws, nws, task, call, cur, notified>>
rxVars == <<rxcli, rx, rxnote, snap>>

\* The variables of the operations that are looked at on their own.
decVars == <<dec>>
seqVars == <<seqfetch>>
energyVars == <<sensor, hass>>
auxVars == <<decVars, seqVars, energyVars>>

vars == <<connVars, rxVars, auxVars>>

coordVars == <<client, nclients, failures, last_attempt, now, shutdown>>

\* ------------------------------------------------------------ initial state
NewClient ==
  [websocket |-> 0, connected |-> FALSE, ping_task |-> 0, message_task |-> 0,
   connection_status |-> DISCONNECTED, lock |-> 0,
   latest_readings |-> 0, current_readings |-> 0, load_status |-> 0]

IdleCall ==
  [pc |-> "idle", op |-> "none",
   self |-> 0,                \* the client a method of which is running
   w |-> 0,                   \* the transport of the pending send (connect), or
                              \* the one the client held on entry (disconnect)
   tasks_to_cancel |-> <<0, 0>>,
   was_connected |-> FALSE,   \* history: self._connected when the method was entered
   err |-> "none",
   data |-> 0,                \* the readings get_readings() returned
   cmd |-> <<>>,              \* the bytes of the command being sent (connect)
   result |-> <<>>]           \* the fetch's result: <<ct1/ct2, load states>>

NoTask ==
  [ping |-> "none", ping_ws |-> 0,
   ping_msg |-> <<>>,         \* the bytes the poll loop is sending
   msg |-> "none", msg_ws |-> 0, frame |-> 0]

\* A transport that websockets.connect has not made yet.  "first" is the
\* first message the transport is handed to send (<<>> while there is none).
NoTransport == [state |-> "none", owner |-> 0, first |-> <<>>]

\* Optional[int] (LoadState.remaining_time): None, or one integer.
None == <<>>
Some(n) == <<n>>

\* LoadStatus (websocket_client.py:27-31)
OFF      == "off"
ON       == "on"
WAIT_OFF == "wait-off"
WAIT_ON  == "wait-on"

\* websocket_client.py:87-92: the settings a new client starts with.
DefaultSettings ==
  [main_supply_breaker |-> 100,
   loads |-> << [load_breaker |-> 60, turn_on_delay |-> 6,  turn_off_delay |-> 10],
                [load_breaker |-> 60, turn_on_delay |-> 8,  turn_off_delay |-> 8],
                [load_breaker |-> 60, turn_on_delay |-> 10, turn_off_delay |-> 6] >>,
   active_ch |-> 2, ct_index |-> 0, ct_rating |-> 100, scale |-> 1]

\* websocket_client.py:74-102 after a successful connect() (lines 116-117):
\* the client the receive loop works on.  Currents are kept in tenths of an
\* ampere (30.0 A is 300), since they carry one decimal.
NewRxClient ==
  [connected |-> TRUE, connection_status |-> CONNECTED,
   settings |-> DefaultSettings,
   current_readings |-> [ct1 |-> 0, ct2 |-> 0],
   latest_readings |-> [ct1 |-> 0, ct2 |-> 0],
   load_status |-> [i \in 1..3 |-> [status |-> OFF, remaining_time |-> None]]]

\* No message has been taken from the stream yet.
NoMessage == [kind |-> "none", data |-> <<>>]

\* No fetch has run yet.  Of a fetch the record keeps: how it ended ("done",
\* "failed"), whether it called connect(), and _connection_failures and the
\* seconds since _last_connection_attempt as it found them.
NoFetch == [pc |-> "idle", connect_called |-> FALSE, n |-> 0, waited |-> 0]

\* sensor.py:297-301: the fields of a new VElectricEnergySensor.  Energy is
\* counted in units of 1/72,000,000 kWh (KWH below), power in tenths of a
\* watt, time in whole seconds: (P1 + P2) * dt of these is
\* ((P1 + P2) / 2) * (dt / 3600) / 1000 kWh exactly.
NewEnergySensor ==
  [energy_total |-> 0, last_update_time |-> None, last_power_value |-> None,
   restored_state |-> FALSE]

\* No caller holds a value yet.  "quiet": the receive loop has taken no
\* message and finished no frame since "last" was returned.
NoSnapshot == [last |-> <<>>, quiet |-> FALSE]

Init ==
  /\ client = 0
  /\ nclients = 0
  /\ failures = 0
  /\ last_attempt = 0
  /\ now = 0
  /\ shutdown = FALSE
  /\ cli = [c \in Clients |-> NewClient]
  /\ nws = 0
  /\ ws = [w \in Transports |-> NoTransport]
  /\ task = [w \in Transports |-> NoTask]
  /\ call = [k \in Callers |-> IdleCall]
  /\ cur = 0
  /\ notified = <<>>
  /\ rxcli = NewRxClient
  /\ rx = [pc |-> "recv", message |-> NoMessage]
  /\ rxnote = <<>>
  /\ snap = NoSnapshot
  /\ dec = [pc |-> "idle", packet |-> <<>>, readings |-> [ct1 |-> 0, ct2 |-> 0]]
  /\ seqfetch = NoFetch
  /\ sensor = NewEnergySensor
  /\ hass = [time |-> 0, data |-> None, last_update_success |-> TRUE,
             voltage |-> DEFAULT_VOLTAGE]

\* ----------------------------------------------------------------- helpers
Min(a, b) == IF a < b THEN a ELSE b

\* A task that has not finished: task.done() is false.
LiveStates == {"ready", "send", "start", "recv", "lock", "cancelling"}

\* asyncio.Lock: the coroutines queued on the lock of client c.
LockWaiters(c) ==
  {k \in Callers : call[k].pc \in {"c_lock", "g_lock"} /\ call[k].self = c}
    \cup {w \in Transports : task[w].msg = "lock" /\ ws[w].owner = c}

\* asyncio.Lock.acquire returns without suspending only when the lock is not
\* held and nobody is queued on it.
LockFree(c) == cli[c].lock = 0 /\ LockWaiters(c) = {}

\* The callers are interchangeable coroutines: a new call into the coordinator
\* is taken by the first idle one.
FirstIdle(k) ==
  /\ call[k].pc = "idle"
  /\ \A j \in Callers : j < k => call[j].pc # "idle"

Goto(k, label) == [call EXCEPT ![k].pc = label]

\* The caller k finishes its segment at a suspension point (the event loop is
\* free again) or stays in the middle of it.
Suspend == cur' = 0
Continue(k) == cur' = k

\* "await self._client.disconnect()" (__init__.py:177 and 190) is reached by
\* caller k running operation o.  Besides the callee's self, the caller's
\* record keeps, as history for the properties, what the client held on entry.
CallDisconnect(k, o) ==
  [call EXCEPT ![k].op = o, ![k].pc = "d_call", ![k].self = client,
               ![k].was_connected = cli[client].connected,
               ![k].w = cli[client].websocket,
               ![k].tasks_to_cancel = <<cli[client].ping_task, cli[client].message_task>>]

\* ------------------------------------------------- coordinator: the fetch
\* Mutant of BackoffDelay: the delay is not capped.
BackoffDelayUncapped(n) == 2 ^ (n - 1)

\* __init__.py:124  min(2 ** (failures - 1), 300)
BackoffDelay(n) == Min(2 ^ (n - 1), MaxBackoff)

\* Mutant of BackoffPending: after a failure the fetch is rejected whatever
\* the clock says.
BackoffPendingIgnoresClock ==
  failures > 0

\* __init__.py:123-125: the fetch is rejected while the backoff delay runs.
BackoffPending ==
  /\ failures > 0
  /\ now - last_attempt < BackoffDelay(failures)

\* _async_update_data, lines 116-131 (up to the call of connect) or, on a
\* connected client, up to the call of get_readings (line 133).
FetchStart(k) ==
  /\ cur = 0
  /\ FirstIdle(k)
  /\ ~shutdown
  /\ failures < MaxFailures
  /\ client # 0 \/ nclients < MaxClients
  /\ LET c == IF client = 0 THEN nclients + 1 ELSE client IN
     /\ client' = c
     /\ nclients' = IF client = 0 THEN nclients + 1 ELSE nclients
     /\ IF ~cli[c].connected
        THEN IF BackoffPending
             THEN /\ call' = [call EXCEPT ![k] = [IdleCall EXCEPT
                               !.op = "fetch", !.pc = "f_except", !.err = "backoff"]]
                  /\ UNCHANGED last_attempt
             ELSE /\ last_attempt' = now
                  /\ call' = [call EXCEPT ![k] = [IdleCall EXCEPT
                               !.op = "fetch", !.pc = "c_call", !.self = c]]
        ELSE /\ call' = [call EXCEPT ![k] = [IdleCall EXCEPT
                          !.op = "fetch", !.pc = "g_call", !.self = c]]
             /\ UNCHANGED last_attempt
  /\ Continue(k)
  /\ notified' = <<>>
  /\ UNCHANGED <<failures, now, shutdown, cli, ws, nws, task>>
  /\ UNCHANGED <<rxVars, auxVars>>

\* ---------------------------------------------------------- client.connect
\* Mutant of ConnectIsNoop: connect() without its early return.
ConnectNeverNoop(r) == FALSE

\* websocket_client.py:107  "if self._connected: return"
ConnectIsNoop(r) == r.connected

\* Mutant of ConnectExcept: the except block forgets connection_status.
ConnectExceptKeepsStatus(r) == [r EXCEPT !.connected = FALSE, !.lock = 0]

\* websocket_client.py:128-133: the except block of connect (the lock is
\* released as the exception leaves the "async with").
ConnectExcept(r) ==
  [r EXCEPT !.connected = FALSE, !.connection_status = DISCONNECTED, !.lock = 0]

\* connect() once the lock is held: lines 107-115, up to the await of
\* websockets.connect.
ConnectBody(k, c) ==
  IF ConnectIsNoop(cli[c])
  THEN /\ call' = [call EXCEPT ![k].pc = "c_ret", ![k].was_connected = cli[c].connected]
       /\ Continue(k)
       /\ notified' = <<>>
       /\ UNCHANGED cli
  ELSE /\ cli' = [cli EXCEPT ![c].connection_status = CONNECTING, ![c].lock = k]
       /\ notified' = <<c, CONNECTING>>
       /\ call' = [call EXCEPT ![k].pc = "c_open", ![k].was_connected = cli[c].connected]
       /\ Suspend

\* connect(), line 106: "async with self._lock".
ConnectCall(k) ==
  /\ cur = k
  /\ call[k].pc = "c_call"
  /\ LET c == call[k].self IN
     IF LockFree(c)
     THEN ConnectBody(k, c)
     ELSE /\ call' = Goto(k, "c_lock")
          /\ Suspend
          /\ notified' = <<>>
          /\ UNCHANGED cli
  /\ UNCHANGED <<coordVars, ws, nws, task>>
  /\ UNCHANGED <<rxVars, auxVars>>

\* connect(): the lock is handed to a queued caller.
ConnectLocked(k) ==
  /\ cur = 0
  /\ call[k].pc = "c_lock"
  /\ cli[call[k].self].lock = 0
  /\ ConnectBody(k, call[k].self)
  /\ UNCHANGED <<coordVars, ws, nws, task>>
  /\ UNCHANGED <<rxVars, auxVars>>

\* Mutant of SendCommand: every command goes out as the request byte.
SendCommandAsRequest(command) == <<WS_REQUEST_BYTE>>

\* websocket_client.py:391  struct.pack("B", command): the bytes of a command.
SendCommand(command) == <<command>>

\* The transport is handed msg to send; "first" keeps the first such message.
HandOver(t, msg) == [t EXCEPT !.first = IF @ = <<>> THEN msg ELSE @]

\* connect(), lines 115-122: websockets.connect returned a transport; the
\* client becomes Connected and sends the init command (105): the test of
\* _send_command (line 390) finds the transport and _connected, both set by
\* lines 115-116 in this segment, and the send (line 392) starts.
ConnectOpened(k) ==
  /\ cur = 0
  /\ call[k].pc = "c_open"
  /\ nws < MaxWs
  /\ LET c == call[k].self
         w == nws + 1
     IN /\ ws' = [ws EXCEPT ![w] = HandOver([NoTransport EXCEPT !.state = "open",
                                                               !.owner = c],
                                            SendCommand(105))]
        /\ cli' = [cli EXCEPT ![c].websocket = w, ![c].connected = TRUE,
                              ![c].connection_status = CONNECTED]
        /\ notified' = <<c, CONNECTED>>
        /\ call' = [call EXCEPT ![k].pc = "c_init", ![k].w = w,
                                ![k].cmd = SendCommand(105)]
        /\ nws' = w
  /\ Suspend
  /\ UNCHANGED <<coordVars, task>>
  /\ UNCHANGED <<rxVars, auxVars>>

\* connect(), lines 115 and 128-133: websockets.connect raised.
ConnectRefused(k) ==
  /\ cur = 0
  /\ call[k].pc = "c_open"
  /\ LET c == call[k].self IN
     /\ cli' = [cli EXCEPT ![c] = ConnectExcept(@)]
     /\ notified' = <<c, DISCONNECTED>>
  /\ call' = [call EXCEPT ![k].pc = "c_raised", ![k].err = "connect"]
  /\ Continue(k)
  /\ UNCHANGED <<coordVars, ws, nws, task>>
  /\ UNCHANGED <<rxVars, auxVars>>

\* connect(), lines 122-126: the init command was sent; both loops are
\* created (asyncio.create_task: they first run in a later segment).
ConnectInitSent(k) ==
  /\ cur = 0
  /\ call[k].pc = "c_init"
  /\ LET c == call[k].self
         w == call[k].w
     IN /\ task' = [task EXCEPT ![w] = [NoTask EXCEPT !.ping = "ready", !.msg = "start"]]
        /\ cli' = [cli EXCEPT ![c].ping_task = w, ![c].message_task = w, ![c].lock = 0]
  /\ call' = [call EXCEPT ![k].pc = "c_ret", ![k].cmd = <<>>]
  /\ Continue(k)
  /\ notified' = <<>>
  /\ UNCHANGED <<coordVars, ws, nws>>
  /\ UNCHANGED <<rxVars, auxVars>>

\* connect(), lines 122 and 128-133: sending the init command raised (the
\* transport is no longer open).
ConnectInitFailed(k) ==
  /\ cur = 0
  /\ call[k].pc = "c_init"
  /\ ws[call[k].w].state # "open"
  /\ LET c == call[k].self IN
     /\ cli' = [cli EXCEPT ![c] = ConnectExcept(@)]
     /\ notified' = <<c, DISCONNECTED>>
  /\ call' = [call EXCEPT ![k].pc = "c_raised", ![k].err = "init", ![k].cmd = <<>>]
  /\ Continue(k)
  /\ UNCHANGED <<coordVars, ws, nws, task>>
  /\ UNCHANGED <<rxVars, auxVars>>

\* ----------------------------------------------------- client.get_readings
\* Mutant of GetReadingsRaises: get_readings() without its connection test.
GetReadingsNeverRaises(r) == FALSE

\* websocket_client.py:170-171  "if not self._connected: raise ConnectionError"
GetReadingsRaises(r) == ~r.connected

\* _async_update_data, line 133: connect() returned; self._client is read
\* again (it is None when a shutdown ran meanwhile: AttributeError).
FetchRead(k) ==
  /\ cur = k
  /\ call[k].pc = "c_ret"
  /\ call' = IF client = 0
             THEN [call EXCEPT ![k].pc = "f_except", ![k].err = "attribute"]
             ELSE [call EXCEPT ![k].pc = "g_call", ![k].self = client]
  /\ Continue(k)
  /\ notified' = <<>>
  /\ UNCHANGED <<coordVars, cli, ws, nws, task>>
  /\ UNCHANGED <<rxVars, auxVars>>

\* get_readings(), lines 170-174.
GetReadingsCall(k) ==
  /\ cur = k
  /\ call[k].pc = "g_call"
  /\ LET c == call[k].self
         entered == [call EXCEPT ![k].was_connected = cli[c].connected]
     IN IF GetReadingsRaises(cli[c])
        THEN /\ call' = [entered EXCEPT ![k].pc = "g_raised", ![k].err = "not_connected"]
             /\ Continue(k)
        ELSE IF LockFree(c)
             THEN /\ call' = [entered EXCEPT ![k].pc = "g_ret",
                                             ![k].data = cli[c].latest_readings]
                  /\ Continue(k)
             ELSE /\ call' = [entered EXCEPT ![k].pc = "g_lock"]
                  /\ Suspend
  /\ notified' = <<>>
  /\ UNCHANGED <<coordVars, cli, ws, nws, task>>
  /\ UNCHANGED <<rxVars, auxVars>>

\* get_readings(), lines 173-174: the lock is handed to the queued reader.
GetReadingsLocked(k) ==
  /\ cur = 0
  /\ call[k].pc = "g_lock"
  /\ cli[call[k].self].lock = 0
  /\ call' = [call EXCEPT ![k].pc = "g_ret",
                          ![k].data = cli[call[k].self].latest_readings]
  /\ Continue(k)
  /\ notified' = <<>>
  /\ UNCHANGED <<coordVars, cli, ws, nws, task>>
  /\ UNCHANGED <<rxVars, auxVars>>

\* __init__.py:139-149: the result takes ct1/ct2 from the dict get_readings()
\* returned and the load states from the client self._client names now.
FetchResult(data, r) == <<data, r.load_status>>

\* _async_update_data, lines 136-169: the failure count is reset and the
\* result is built from self._client (None after a shutdown: AttributeError,
\* caught by the except of line 171).
FetchBuild(k) ==
  /\ cur = k
  /\ call[k].pc = "g_ret"
  /\ failures' = 0
  /\ call' = IF client = 0
             THEN [call EXCEPT ![k].pc = "f_except", ![k].err = "attribute"]
             ELSE [call EXCEPT ![k].pc = "f_done",
                               ![k].result = FetchResult(call[k].data, cli[client])]
  /\ Continue(k)
  /\ notified' = <<>>
  /\ UNCHANGED <<client, nclients, last_attempt, now, shutdown, cli, ws, nws, task>>
  /\ UNCHANGED <<rxVars, auxVars>>

\* _async_update_data, lines 171-177: the except block, up to the call of
\* disconnect (or to the raise of UpdateFailed when there is no client).
FetchExcept(k) ==
  /\ cur = k
  /\ call[k].pc \in {"f_except", "c_raised", "g_raised"}
  /\ failures' = failures + 1
  /\ call' = IF client # 0
             THEN CallDisconnect(k, call[k].op)
             ELSE Goto(k, "f_failed")
  /\ Continue(k)
  /\ notified' = <<>>
  /\ UNCHANGED <<client, nclients, last_attempt, now, shutdown, cli, ws, nws, task>>
  /\ UNCHANGED <<rxVars, auxVars>>

\* _async_update_data returns its result (line 169) or raises UpdateFailed
\* (line 185); async_shutdown returns (line 191).
Return(k) ==
  /\ cur = k
  /\ call[k].pc \in {"f_done", "f_failed", "s_done"}
  /\ call' = [call EXCEPT ![k] = IdleCall]
  /\ Suspend
  /\ notified' = <<>>
  /\ UNCHANGED <<coordVars, cli, ws, nws, task>>
  /\ UNCHANGED <<rxVars, auxVars>>

\* ------------------------------------------------------- client.disconnect
\* Mutant of DisconnectIsNoop: disconnect() without its early return.
DisconnectNeverNoop(r) == FALSE

\* Mutant of WaitForReturns: a plain await, which returns only once the
\* awaited task or close has finished.
AwaitReturns(st) == st \in {"done", "closed"}

\* websocket_client.py:137  "if not self._connected: return"
DisconnectIsNoop(r) == ~r.connected

\* websocket_client.py:149 and 158: asyncio.wait_for(..., timeout=5.0) gives
\* control back whether or not the awaited operation has finished (st is the
\* state of the awaited task or transport).
WaitForReturns(st) == TRUE

\* websocket_client.py:153-154
ClearTasks(r) == [r EXCEPT !.ping_task = 0, !.message_task = 0]

\* websocket_client.py:162-165: the transport reference is dropped and the
\* client becomes Disconnected.
DisconnectFinish(r) ==
  [r EXCEPT !.websocket = 0, !.connection_status = DISCONNECTED]

\* WebSocket.close() was called on a transport in state st.
CloseRequested(st) == IF st = "closed" THEN "closed" ELSE "closing"

\* disconnect(), lines 153-165, from the end of the task loop: r is the
\* client as this segment has changed it so far.
DisconnectClose(k, c, r) ==
  IF r.websocket # 0
  THEN /\ ws' = [ws EXCEPT ![r.websocket].state = CloseRequested(@)]
       /\ cli' = [cli EXCEPT ![c] = r]
       /\ call' = Goto(k, "d_close")
       /\ notified' = <<>>
       /\ Suspend
  ELSE /\ cli' = [cli EXCEPT ![c] = [r EXCEPT !.connection_status = DISCONNECTED]]
       /\ call' = Goto(k, "d_ret")
       /\ notified' = <<c, DISCONNECTED>>
       /\ Continue(k)
       /\ UNCHANGED ws

\* disconnect(), lines 145-151: the loop over tasks_to_cancel = <<p, m>>, from
\* its i-th entry on; a task that exists and is not done is cancelled and
\* awaited.
DisconnectCancel(k, c, i, r, p, m) ==
  IF i = 1 /\ p # 0 /\ task[p].ping \in LiveStates
  THEN /\ task' = [task EXCEPT ![p].ping = "cancelling"]
       /\ cli' = [cli EXCEPT ![c] = r]
       /\ call' = [call EXCEPT ![k].pc = "d_wait1", ![k].tasks_to_cancel = <<p, m>>]
       /\ notified' = <<>>
       /\ Suspend
       /\ UNCHANGED ws
  ELSE IF m # 0 /\ task[m].msg \in LiveStates
       THEN /\ task' = [task EXCEPT ![m].msg = "cancelling"]
            /\ cli' = [cli EXCEPT ![c] = r]
            /\ call' = [call EXCEPT ![k].pc = "d_wait2", ![k].tasks_to_cancel = <<p, m>>]
            /\ notified' = <<>>
            /\ Suspend
            /\ UNCHANGED ws
       ELSE /\ DisconnectClose(k, c, ClearTasks(r))
            /\ UNCHANGED task

\* disconnect(), lines 137-149.
DisconnectCall(k) ==
  /\ cur = k
  /\ call[k].pc = "d_call"
  /\ LET c == call[k].self IN
     IF DisconnectIsNoop(cli[c])
     THEN /\ call' = Goto(k, "d_ret")
          /\ Continue(k)
          /\ notified' = <<>>
          /\ UNCHANGED <<cli, ws, task>>
     ELSE DisconnectCancel(k, c, 1, [cli[c] EXCEPT !.connected = FALSE],
                           cli[c].ping_task, cli[c].message_task)
  /\ UNCHANGED <<coordVars, nws>>
  /\ UNCHANGED <<rxVars, auxVars>>

\* disconnect(), lines 149-151: the wait for the poll task is over (it was
\* cancelled, or the 5 s ran out); the loop goes on with the receive task.
DisconnectWaited1(k) ==
  /\ cur = 0
  /\ call[k].pc = "d_wait1"
  /\ WaitForReturns(task[call[k].tasks_to_cancel[1]].ping)
  /\ LET c == call[k].self IN
     DisconnectCancel(k, c, 2, cli[c], call[k].tasks_to_cancel[1],
                      call[k].tasks_to_cancel[2])
  /\ UNCHANGED <<coordVars, nws>>
  /\ UNCHANGED <<rxVars, auxVars>>

\* disconnect(), lines 149-158: the wait for the receive task is over.
DisconnectWaited2(k) ==
  /\ cur = 0
  /\ call[k].pc = "d_wait2"
  /\ WaitForReturns(task[call[k].tasks_to_cancel[2]].msg)
  /\ LET c == call[k].self IN DisconnectClose(k, c, ClearTasks(cli[c]))
  /\ UNCHANGED <<coordVars, nws, task>>
  /\ UNCHANGED <<rxVars, auxVars>>

\* disconnect(), lines 158-166: the wait for close() is over (closed, or the
\* 5 s ran out).
DisconnectClosed(k) ==
  /\ cur = 0
  /\ call[k].pc = "d_close"
  /\ LET c == call[k].self IN
     /\ WaitForReturns(IF cli[c].websocket = 0 THEN "closed"
                       ELSE ws[cli[c].websocket].state)
     /\ cli' = [cli EXCEPT ![c] = DisconnectFinish(@)]
     /\ notified' = <<c, DISCONNECTED>>
  /\ call' = Goto(k, "d_ret")
  /\ Continue(k)
  /\ UNCHANGED <<coordVars, ws, nws, task>>
  /\ UNCHANGED <<rxVars, auxVars>>

\* Mutant of DisconnectReturn: the client reference is kept.
DisconnectReturnKeepsClient(k) ==
  /\ cur = k
  /\ call[k].pc = "d_ret"
  /\ call' = Goto(k, IF call[k].op = "fetch" THEN "f_failed" ELSE "s_done")
  /\ Continue(k)
  /\ notified' = <<>>
  /\ UNCHANGED <<client, nclients, failures, last_attempt, now, shutdown, cli, ws, nws, task>>
  /\ UNCHANGED <<rxVars, auxVars>>

\* _async_update_data, lines 178-185, and async_shutdown, line 191:
\* disconnect() returned; the client reference is dropped.
DisconnectReturn(k) ==
  /\ cur = k
  /\ call[k].pc = "d_ret"
  /\ client' = 0
  /\ call' = Goto(k, IF call[k].op = "fetch" THEN "f_failed" ELSE "s_done")
  /\ Continue(k)
  /\ notified' = <<>>
  /\ UNCHANGED <<nclients, failures, last_attempt, now, shutdown, cli, ws, nws, task>>
  /\ UNCHANGED <<rxVars, auxVars>>

\* async_shutdown, lines 189-190 (called once, when the entry is unloaded).
ShutdownStart(k) ==
  /\ cur = 0
  /\ FirstIdle(k)
  /\ ~shutdown
  /\ shutdown' = TRUE
  /\ call' = IF client # 0
             THEN CallDisconnect(k, "shutdown")
             ELSE [call EXCEPT ![k] = [IdleCall EXCEPT
                     !.op = "shutdown", !.pc = "s_done"]]
  /\ Continue(k)
  /\ notified' = <<>>
  /\ UNCHANGED <<client, nclients, failures, last_attempt, now, cli, ws, nws, task>>
  /\ UNCHANGED <<rxVars, auxVars>>

\* ------------------------------------------------------ the poll loop task
\* _ping_loop, lines 198-200: the loop test, then the send of the request
\* byte on the client's current transport.  A send on a transport that is no
\* longer open raises at once (lines 203-210).
PingLoop(w) ==
  /\ cur = 0
  /\ task[w].ping = "ready"
  /\ LET c == ws[w].owner
         t == cli[c].websocket
     IN IF cli[c].connected /\ t # 0
        THEN IF ws[t].state = "open"
             THEN /\ task' = [task EXCEPT ![w].ping = "send", ![w].ping_ws = t,
                                          ![w].ping_msg = <<WS_REQUEST_BYTE>>]
                  /\ ws' = [ws EXCEPT ![t] = HandOver(@, <<WS_REQUEST_BYTE>>)]
                  /\ UNCHANGED cli
             ELSE /\ task' = [task EXCEPT ![w].ping = "done"]
                  /\ cli' = [cli EXCEPT ![c].connected = FALSE]
                  /\ UNCHANGED ws
        ELSE /\ task' = [task EXCEPT ![w].ping = "done"]
             /\ UNCHANGED <<cli, ws>>
  /\ notified' = <<>>
  /\ UNCHANGED <<coordVars, nws, call, cur>>
  /\ UNCHANGED <<rxVars, auxVars>>

\* _ping_loop, lines 200-202: the send completed; the loop sleeps
\* PING_INTERVAL and comes back to its test.
PingSent(w) ==
  /\ cur = 0
  /\ task[w].ping = "send"
  /\ task' = [task EXCEPT ![w].ping = "ready", ![w].ping_ws = 0, ![w].ping_msg = <<>>]
  /\ notified' = <<>>
  /\ UNCHANGED <<coordVars, cli, ws, nws, call, cur>>
  /\ UNCHANGED <<rxVars, auxVars>>

\* _ping_loop, lines 203-210: the send raised (the transport is not open any
\* more); the loop marks the client not connected and ends.
PingFailed(w) ==
  /\ cur = 0
  /\ task[w].ping = "send"
  /\ ws[task[w].ping_ws].state # "open"
  /\ task' = [task EXCEPT ![w].ping = "done", ![w].ping_ws = 0, ![w].ping_msg = <<>>]
  /\ cli' = [cli EXCEPT ![ws[w].owner].connected = FALSE]
  /\ notified' = <<>>
  /\ UNCHANGED <<coordVars, ws, nws, call, cur>>
  /\ UNCHANGED <<rxVars, auxVars>>

\* -------------------------------------------------- the receive loop task
\* _message_handler, lines 214-218: the first run of the task; it iterates
\* the transport the client holds at that moment.
MessageStart(w) ==
  /\ cur = 0
  /\ task[w].msg = "start"
  /\ LET t == cli[ws[w].owner].websocket IN
     task' = IF t = 0
             THEN [task EXCEPT ![w].msg = "done"]
             ELSE [task EXCEPT ![w].msg = "recv", ![w].msg_ws = t]
  /\ notified' = <<>>
  /\ UNCHANGED <<coordVars, cli, ws, nws, call, cur>>
  /\ UNCHANGED <<rxVars, auxVars>>

\* _process_readings_message, lines 339-386, with the lock held: the legacy
\* readings dict and the load states are replaced.
ApplyReadings(r, v) == [r EXCEPT !.latest_readings = v, !.load_status = v]

\* _message_handler line 220 and _process_readings_message lines 326-343: a
\* readings frame (13 bytes or more) v arrives; current_readings is replaced,
\* then the lock is taken.
MessageReadings(w, v) ==
  /\ cur = 0
  /\ task[w].msg = "recv"
  /\ ws[task[w].msg_ws].state = "open"
  /\ LET c == ws[w].owner IN
     IF LockFree(c)
     THEN /\ cli' = [cli EXCEPT ![c] = ApplyReadings([@ EXCEPT !.current_readings = v], v)]
          /\ UNCHANGED task
     ELSE /\ cli' = [cli EXCEPT ![c].current_readings = v]
          /\ task' = [task EXCEPT ![w].msg = "lock", ![w].frame = v]
  /\ cli' # cli
  /\ notified' = <<>>
  /\ UNCHANGED <<coordVars, ws, nws, call, cur>>
  /\ UNCHANGED <<rxVars, auxVars>>

\* _process_readings_message, lines 339-386: the lock is handed to the
\* receive loop.
MessageLocked(w) ==
  /\ cur = 0
  /\ task[w].msg = "lock"
  /\ LET c == ws[w].owner IN
     /\ cli[c].lock = 0
     /\ cli' = [cli EXCEPT ![c] = ApplyReadings(@, task[w].frame)]
  /\ task' = [task EXCEPT ![w].msg = "recv", ![w].frame = 0]
  /\ notified' = <<>>
  /\ UNCHANGED <<coordVars, ws, nws, call, cur>>
  /\ UNCHANGED <<rxVars, auxVars>>

\* _message_handler, line 218: the inbound stream ends without an error (the
\* device closed the connection normally, or close() was called on it); the
\* "async for" ends and the handler returns.
MessageStreamEnd(w) ==
  /\ cur = 0
  /\ task[w].msg = "recv"
  /\ ws[task[w].msg_ws].state # "open"
  /\ task' = [task EXCEPT ![w].msg = "done", ![w].msg_ws = 0]
  /\ notified' = <<>>
  /\ UNCHANGED <<coordVars, cli, ws, nws, call, cur>>
  /\ UNCHANGED <<rxVars, auxVars>>

\* _message_handler, lines 223-232: the inbound stream raises (the connection
\* dropped, or a close() did not get its closing handshake).
MessageStreamError(w) ==
  /\ cur = 0
  /\ task[w].msg = "recv"
  /\ ws[task[w].msg_ws].state # "open"
  /\ task' = [task EXCEPT ![w].msg = "done", ![w].msg_ws = 0]
  /\ LET c == ws[w].owner IN
     /\ cli' = [cli EXCEPT ![c].connected = FALSE,
                           ![c].connection_status = DISCONNECTED]
     /\ notified' = <<c, DISCONNECTED>>
  /\ UNCHANGED <<coordVars, ws, nws, call, cur>>
  /\ UNCHANGED <<rxVars, auxVars>>

\* asyncio: CancelledError is delivered to a cancelled task at its await; none
\* of the two loops catches it (their handlers catch Exception), so the task
\* ends.
TaskCancelled(w) ==
  /\ cur = 0
  /\ \/ /\ task[w].ping = "cancelling"
        /\ task' = [task EXCEPT ![w].ping = "done", ![w].ping_ws = 0, ![w].ping_msg = <<>>]
     \/ /\ task[w].msg = "cancelling"
        /\ task' = [task EXCEPT ![w].msg = "done", ![w].msg_ws = 0, ![w].frame = 0]
  /\ notified' = <<>>
  /\ UNCHANGED <<coordVars, cli, ws, nws, call, cur>>
  /\ UNCHANGED <<rxVars, auxVars>>

\* ---------------------------------------------------------- the environment
\* The connection ends from the other side: the device closes it (normally,
\* close code 1000, or not), or the network drops it.  Sends on it fail from
\* now on; how it ended is seen by the receive loop alone (MessageStreamEnd,
\* MessageStreamError).
ConnectionLost(w) ==
  /\ cur = 0
  /\ ws[w].state = "open"
  /\ ws' = [ws EXCEPT ![w].state = "lost"]
  /\ notified' = <<>>
  /\ UNCHANGED <<coordVars, cli, nws, task, call, cur>>
  /\ UNCHANGED <<rxVars, auxVars>>

\* WebSocket.close() completes.
CloseDone(w) ==
  /\ cur = 0
  /\ ws[w].state = "closing"
  /\ ws' = [ws EXCEPT ![w].state = "closed"]
  /\ notified' = <<>>
  /\ UNCHANGED <<coordVars, cli, nws, task, call, cur>>
  /\ UNCHANGED <<rxVars, auxVars>>

\* One second passes.  The clock is read only by the backoff test of the fetch
\* (__init__.py:122-125), so only the seconds that can change its outcome are
\* steps of the model.
Tick ==
  /\ cur = 0
  /\ now < MaxTime
  /\ BackoffPending
  /\ now' = now + 1
  /\ notified' = <<>>
  /\ UNCHANGED <<client, nclients, failures, last_attempt, shutdown,
                 cli, ws, nws, task, call, cur>>
  /\ UNCHANGED <<rxVars, auxVars>>

\* ============================================ the frames and their decoding
\* Python indexes bytes from 0: data[i].
At(data, i) == data[i + 1]

\* struct.unpack("<H", data[i:i+2])[0]: little-endian uint16 at offset i.
U16(data, i) == At(data, i) + 256 * At(data, i + 1)

\* Mutant of Max: no clamping.
NoClamp(a, b) == b

Max(a, b) == IF a > b THEN a ELSE b

\* The largest r in lo..hi with r * r <= n (lo * lo <= n < (hi + 1) ^ 2).
RECURSIVE FloorSqrt(_, _, _)
FloorSqrt(n, lo, hi) ==
  IF lo = hi THEN lo
  ELSE LET mid == (lo + hi + 1) \div 2 IN
       IF mid * mid <= n THEN FloorSqrt(n, mid, hi) ELSE FloorSqrt(n, lo, mid - 1)

\* Mutant of SqrtTenths: the square root is cut to one decimal, not rounded.
SqrtTenthsTruncated(raw) == FloorSqrt(100 * raw, 0, 2560)

\* websocket_client.py:331-336  round(math.sqrt(raw) * 1, 1), in tenths: the
\* multiple of 0.1 nearest to the square root.  (10 * sqrt(raw) is never
\* half-way between two integers, and it is at least 1/5120 away from it, so
\* the floating-point result is the exact rounding.)
SqrtTenths(raw) ==
  LET t == FloorSqrt(100 * raw, 0, 2560) IN
  IF 400 * raw >= (2 * t + 1) * (2 * t + 1) THEN t + 1 ELSE t

\* websocket_client.py:328-336: CurrentReadings of a readings frame.
DecodeReadings(data) ==
  [ct1 |-> SqrtTenths(U16(data, 0)), ct2 |-> SqrtTenths(U16(data, 2))]

\* Mutant of DecodeCurrents: the length test is left to struct.unpack_from,
\* which raises struct.error (caught at line 192) below 4 bytes only.
DecodeCurrentsUnchecked(packet) ==
  IF Len(packet) < 4
  THEN [ct1 |-> 0, ct2 |-> 0]
  ELSE [ct1 |-> SqrtTenths(U16(packet, 0)), ct2 |-> SqrtTenths(U16(packet, 2))]

\* websocket_client.py:176-194  decode_currents
DecodeCurrents(packet) ==
  IF Len(packet) # PACKET_SIZE
  THEN [ct1 |-> 0, ct2 |-> 0]
  ELSE [ct1 |-> SqrtTenths(U16(packet, 0)), ct2 |-> SqrtTenths(U16(packet, 2))]

\* Mutant of LoadStateOf: the turn-on delay is taken in seconds.
LoadStateOfSeconds(status_byte, counter, load) ==
  IF status_byte = 0 THEN [status |-> OFF, remaining_time |-> None]
  ELSE IF status_byte = 1 THEN [status |-> ON, remaining_time |-> None]
  ELSE IF status_byte = 2
       THEN [status |-> WAIT_OFF,
             remaining_time |-> Some(Max(0, load.turn_off_delay - counter))]
  ELSE IF status_byte = 3
       THEN [status |-> WAIT_ON,
             remaining_time |-> Some(Max(0, load.turn_on_delay - counter))]
  ELSE [status |-> OFF, remaining_time |-> None]

\* Mutant of LoadStateOf: an unknown status byte leaves the load On.
LoadStateOfUnknownOn(status_byte, counter, load) ==
  IF status_byte = 0 THEN [status |-> OFF, remaining_time |-> None]
  ELSE IF status_byte = 2
       THEN [status |-> WAIT_OFF,
             remaining_time |-> Some(Max(0, load.turn_off_delay - counter))]
  ELSE IF status_byte = 3
       THEN [status |-> WAIT_ON,
             remaining_time |-> Some(Max(0, load.turn_on_delay * 60 - counter))]
  ELSE [status |-> ON, remaining_time |-> None]

\* websocket_client.py:362-382: the LoadState of one load, from its status
\* byte, its counter and its configured delays.
LoadStateOf(status_byte, counter, load) ==
  IF status_byte = 0 THEN [status |-> OFF, remaining_time |-> None]
  ELSE IF status_byte = 1 THEN [status |-> ON, remaining_time |-> None]
  ELSE IF status_byte = 2
       THEN [status |-> WAIT_OFF,
             remaining_time |-> Some(Max(0, load.turn_off_delay - counter))]
  ELSE IF status_byte = 3
       THEN [status |-> WAIT_ON,
             remaining_time |-> Some(Max(0, load.turn_on_delay * 60 - counter))]
  ELSE [status |-> OFF, remaining_time |-> None]

\* Mutant of DecodeLoadStatus: the list is rebuilt with two entries.
DecodeTwoLoadStates(data, settings) ==
  [i \in 1..2 |->
     LoadStateOf(At(data, 10 + (i - 1)), U16(data, 4 + 2 * (i - 1)), settings.loads[i])]

\* websocket_client.py:346-382: the new load_status list (i is range(3) + 1).
DecodeLoadStatus(data, settings) ==
  [i \in 1..3 |->
     LoadStateOf(At(data, 10 + (i - 1)), U16(data, 4 + 2 * (i - 1)), settings.loads[i])]

\* Mutant of DecodeSettings: the two delays of a load are exchanged.
DecodeSettingsSwapped(data) ==
  LET ct_index == At(data, 11) IN
  [main_supply_breaker |-> At(data, 0) * 1,
   loads |-> [i \in 1..3 |->
               LET base_idx == (i - 1) * 3 + 1 IN
               [load_breaker   |-> At(data, base_idx) * 1,
                turn_on_delay  |-> At(data, base_idx + 2),
                turn_off_delay |-> At(data, base_idx + 1)]],
   active_ch |-> At(data, 10),
   ct_index |-> ct_index,
   ct_rating |-> 100 * (ct_index + 1),
   scale |-> 1]

\* websocket_client.py:267-293: the Settings of a 12-byte frame.
DecodeSettings(data) ==
  LET ct_index == At(data, 11) IN
  [main_supply_breaker |-> At(data, 0) * 1,
   loads |-> [i \in 1..3 |->
               LET base_idx == (i - 1) * 3 + 1 IN
               [load_breaker   |-> At(data, base_idx) * 1,
                turn_on_delay  |-> At(data, base_idx + 1),
                turn_off_delay |-> At(data, base_idx + 2)]],
   active_ch |-> At(data, 10),
   ct_index |-> ct_index,
   ct_rating |-> 100 * (ct_index + 1),
   scale |-> 1]

\* Mutant of IsSettingsFrame: every frame of 12 bytes or more is a settings
\* frame.
IsSettingsFrameOrLonger(data) == Len(data) >= 12

\* websocket_client.py:247  "if len(data) == 12"
IsSettingsFrame(data) == Len(data) = 12

\* Mutant of IsShortFrame: the readings decoder without its length test.
NeverShortFrame(data) == FALSE

\* websocket_client.py:312  "if len(data) < 13"
IsShortFrame(data) == Len(data) < 13

\* websocket_client.py:314  "if len(data) == PACKET_SIZE"
IsLegacyFrame(data) == Len(data) = PACKET_SIZE

\* Reading a byte the frame does not have raises (IndexError for data[12],
\* struct.error for a slice shorter than 2 bytes): lines 328-353 read bytes
\* 0..12, lines 267-282 read bytes 0..11.
ReadingsRaise(data) == Len(data) < 13
SettingsRaise(data) == Len(data) < 12

\* ------------------------------------------------ the frames the device sends
\* Sample values of the fields of a frame.
RawSeq     == <<0, 625, 900, 2, 65535>>
CounterSeq == <<0, 3, 15, 700>>
StatusSeq  == [i \in 1..(MaxStatusByte + 2) |-> IF i <= MaxStatusByte + 1 THEN i - 1 ELSE 255]

Pick(seq, n) == seq[(n % Len(seq)) + 1]

\* A frame in the readings layout, len bytes long: the raw currents, the three
\* counters and the three status bytes, then filler.  The three loads get
\* different statuses and counters (rotated by s and c).
ReadingsLayout(s, c) ==
  LET raw1 == Pick(RawSeq, s + c)
      raw2 == Pick(RawSeq, s + c + 1)
      cnt(i) == Pick(CounterSeq, c + i)
  IN << raw1 % 256, raw1 \div 256, raw2 % 256, raw2 \div 256,
        cnt(0) % 256, cnt(0) \div 256, cnt(1) % 256, cnt(1) \div 256,
        cnt(2) % 256, cnt(2) \div 256,
        Pick(StatusSeq, s), Pick(StatusSeq, s + 1), Pick(StatusSeq, s + 2) >>

Frame(len, s, c) ==
  [i \in 1..len |-> IF i <= 13 THEN ReadingsLayout(s, c)[i] ELSE 170]

\* A 12-byte frame with a different byte at every offset.
SettingsFrame(seed) == [i \in 1..12 |-> (37 * seed + 3 * i) % 256]

Frames ==
  {Frame(len, s, c) : len \in 13..MaxFrameLen, s \in 0..(MaxStatusByte + 1),
                      c \in 0..(Len(CounterSeq) - 1)}
    \cup {Frame(len, 2, 1) : len \in 0..12}
    \cup {SettingsFrame(seed) : seed \in 0..MaxSeed}

\* What "async for message in self._websocket" yields: bytes, or a str.
Messages ==
  {[kind |-> "binary", data |-> f] : f \in Frames} \cup {[kind |-> "text", data |-> <<>>]}

\* ------------------------------------------- the receive loop, frame by frame
\* _message_handler, lines 228-232: an exception of the processing ends the
\* loop.
HandlerExcept(r) ==
  [r EXCEPT !.connected = FALSE, !.connection_status = DISCONNECTED]

\* _process_readings_message, lines 339-382, once the lock is held: the
\* readings dict is copied from current_readings and load_status is rebuilt
\* with the settings of this moment.
FinishReadings(r, data) ==
  [r EXCEPT !.latest_readings = r.current_readings,
            !.load_status = DecodeLoadStatus(data, r.settings)]

\* _process_readings_message, lines 315-320 (the legacy branch), once the
\* lock is held.
FinishLegacy(r, data) ==
  LET readings == DecodeCurrents(data) IN
  [r EXCEPT !.latest_readings = readings, !.current_readings = readings]

\* _message_handler lines 219-222 with _process_binary_message (247-252),
\* _process_settings_message and _process_readings_message: what the loop
\* does with message m, up to its next suspension.  The result is the client
\* and the loop's position: "recv" (waiting for the next message), "lock"
\* (suspended in "async with self._lock", which somebody holds: busy) or
\* "done" (the loop has ended).
ProcessMessage(r, m, busy) ==
  IF m.kind # "binary" THEN <<r, "recv">>
  ELSE LET data == m.data IN
    IF IsSettingsFrame(data)
    THEN IF SettingsRaise(data)
         THEN <<HandlerExcept(r), "done">>
         ELSE <<[r EXCEPT !.settings = DecodeSettings(data)], "recv">>
    ELSE IF IsShortFrame(data)
    THEN IF IsLegacyFrame(data)
         THEN IF busy THEN <<r, "lock">> ELSE <<FinishLegacy(r, data), "recv">>
         ELSE <<r, "recv">>
    ELSE IF ReadingsRaise(data)
    THEN <<HandlerExcept(r), "done">>
    ELSE LET r1 == [r EXCEPT !.current_readings = DecodeReadings(data)] IN
         IF busy THEN <<r1, "lock">> ELSE <<FinishReadings(r1, data), "recv">>

\* websocket_client.py:295-296  self.on_settings_update(self.settings)
OnSettingsUpdate(r) == [kind |-> "settings", settings |-> r.settings]

\* websocket_client.py:322-323 and 385-386
\* self.on_current_reading(self.current_readings, self.load_status)
OnCurrentReading(r) ==
  [kind |-> "reading", current_readings |-> r.current_readings,
   load_status |-> r.load_status]

\* Mutant of Notification: the reading callback is also called before the
\* lock is taken.
NotificationBeforeLock(r, m, pos) ==
  IF m.kind # "binary" \/ pos = "done" THEN <<>>
  ELSE IF IsSettingsFrame(m.data) THEN <<OnSettingsUpdate(r)>>
  ELSE IF IsShortFrame(m.data)
  THEN IF IsLegacyFrame(m.data) THEN <<OnCurrentReading(r)>> ELSE <<>>
  ELSE <<OnCurrentReading(r)>>

\* The callbacks (observers are registered) that the loop calls in the
\* segment that leaves it at pos with client r while it works on message
\* m: the last statement of _process_settings_message (lines 295-296), of
\* the legacy branch (322-323) and of _process_readings_message (385-386).
\* A segment that ends at the lock or in the except branch calls none, and
\* so does one on a text message or on a frame that is ignored.
Notification(r, m, pos) ==
  IF m.kind # "binary" \/ pos # "recv" THEN <<>>
  ELSE IF IsSettingsFrame(m.data) THEN <<OnSettingsUpdate(r)>>
  ELSE IF IsShortFrame(m.data)
  THEN IF IsLegacyFrame(m.data) THEN <<OnCurrentReading(r)>> ELSE <<>>
  ELSE <<OnCurrentReading(r)>>

\* The stream yields message m to the receive loop, which processes it as
\* far as it gets without suspending.
RxMessage(m, busy) ==
  /\ rx.pc = "recv"
  /\ \E out \in {ProcessMessage(rxcli, m, busy)} :
       /\ rxcli' = out[1]
       /\ rx' = [pc |-> out[2], message |-> m]
       /\ rxnote' = Notification(out[1], m, out[2])
  /\ snap' = [snap EXCEPT !.quiet = FALSE]
  /\ UNCHANGED <<connVars, auxVars>>

\* The lock is handed to the receive loop, which finishes the frame.
RxLocked ==
  /\ rx.pc = "lock"
  /\ rxcli' = IF IsShortFrame(rx.message.data)
              THEN FinishLegacy(rxcli, rx.message.data)
              ELSE FinishReadings(rxcli, rx.message.data)
  /\ rx' = [rx EXCEPT !.pc = "recv"]
  /\ rxnote' = Notification(rxcli', rx.message, "recv")
  /\ snap' = [snap EXCEPT !.quiet = FALSE]
  /\ UNCHANGED <<connVars, auxVars>>

\* ------------------------------------------------------- the specification
Next ==
  \/ \E k \in Callers :
       \/ FetchStart(k)
       \/ ConnectCall(k)
       \/ ConnectLocked(k)
       \/ ConnectOpened(k)
       \/ ConnectRefused(k)
       \/ ConnectInitSent(k)
       \/ ConnectInitFailed(k)
       \/ FetchRead(k)
       \/ GetReadingsCall(k)
       \/ GetReadingsLocked(k)
       \/ FetchBuild(k)
       \/ FetchExcept(k)
       \/ DisconnectCall(k)
       \/ DisconnectWaited1(k)
       \/ DisconnectWaited2(k)
       \/ DisconnectClosed(k)
       \/ DisconnectReturn(k)
       \/ ShutdownStart(k)
       \/ Return(k)
  \/ \E w \in Transports :
       \/ PingLoop(w)
       \/ PingSent(w)
       \/ PingFailed(w)
       \/ MessageStart(w)
       \/ \E v \in Readings : MessageReadings(w, v)
       \/ MessageLocked(w)
       \/ MessageStreamEnd(w)
       \/ MessageStreamError(w)
       \/ TaskCancelled(w)
       \/ ConnectionLost(w)
       \/ CloseDone(w)
  \/ Tick

Spec == Init /\ [][Next]_vars

\* The event loop resumes a coroutine whose bounded wait is over: every
\* asyncio.wait_for of disconnect() ends after 5 s at the latest.
DisconnectResume(k) ==
  DisconnectWaited1(k) \/ DisconnectWaited2(k) \/ DisconnectClosed(k)

\* A coroutine in the middle of a segment runs on to its next suspension
\* point (nothing else runs on the event loop meanwhile).
RunOn == cur # 0 /\ Next

FairSpec ==
  /\ Spec
  /\ WF_vars(RunOn)
  /\ \A k \in Callers : SF_vars(DisconnectResume(k))

\* The receive loop of one connected client, fed any sequence of messages.
FrameNext ==
  \/ \E m \in Messages, busy \in BOOLEAN : RxMessage(m, busy)
  \/ RxLocked

FrameSpec == Init /\ [][FrameNext]_vars

\* ------------------------------------------- what the client hands to callers
\* A value handed to a caller, part by part: its content, and whether the
\* part is the client's own object ("shared") or an object made for the
\* caller.  No object of the client is changed after the segment that built
\* it (lines 287, 317-319, 331, 340 and 360 all bind new objects), so the
\* content of a part stays what it was when it was returned.
Fresh(v) == [val |-> v, shared |-> FALSE]
Own(v) == [val |-> v, shared |-> TRUE]

\* Mutant of GetStateDict: the list self.load_status itself is returned.
GetStateDictOwnList(r) ==
  [connection_status |-> Fresh(r.connection_status),
   current_readings |-> Fresh(r.current_readings),
   load_status |-> Own(r.load_status),
   settings |-> Fresh(r.settings)]

\* websocket_client.py:402-411  get_state_dict: the enum's value (a str),
\* and dataclasses.asdict of every dataclass, which builds new dicts and
\* lists all the way down.  (host and port, two constants, are left out.)
GetStateDict(r) ==
  [connection_status |-> Fresh(r.connection_status),
   current_readings |-> Fresh(r.current_readings),
   load_status |-> Fresh(r.load_status),
   settings |-> Fresh(r.settings)]

\* websocket_client.py:174  self._latest_readings.copy()
ReadingsCopy(r) == [latest_readings |-> Fresh(r.latest_readings)]

\* A caller gets "out" from operation op.
Returned(op, out) == [last |-> <<[op |-> op, out |-> out]>>, quiet |-> TRUE]

\* A call of get_state_dict() (a plain method: it runs in one segment).
SnapGetStateDict ==
  /\ snap' = Returned("get_state_dict", GetStateDict(rxcli))
  /\ UNCHANGED <<rxcli, rx, rxnote>>
  /\ UNCHANGED <<connVars, auxVars>>

\* A call of get_readings() returns, from inside "async with self._lock"
\* (lines 170-174).
SnapGetReadings ==
  /\ ~GetReadingsRaises(rxcli)
  /\ snap' = Returned("get_readings", ReadingsCopy(rxcli))
  /\ UNCHANGED <<rxcli, rx, rxnote>>
  /\ UNCHANGED <<connVars, auxVars>>

\* The messages that arrive between the calls: two readings frames, a
\* settings frame, a frame that is ignored, and a text message.
SnapMessages ==
  {[kind |-> "binary", data |-> f] :
     f \in {Frame(13, 0, 0), Frame(MaxFrameLen, 2, 1), SettingsFrame(0), Frame(5, 2, 1)}}
    \cup {[kind |-> "text", data |-> <<>>]}

SnapNext ==
  \/ SnapGetStateDict
  \/ SnapGetReadings
  \/ \E m \in SnapMessages, busy \in BOOLEAN : RxMessage(m, busy)
  \/ RxLocked

SnapSpec == Init /\ [][SnapNext]_vars

\* ------------------------------------------------ decode_currents on its own
\* The byte strings decode_currents is called with: every prefix (0 bytes up
\* to the whole) of every frame in the readings layout.
Packets ==
  {Frame(len, s, c) : len \in 0..MaxFrameLen, s \in 0..(MaxStatusByte + 1),
                      c \in 0..(Len(CounterSeq) - 1)}

\* websocket_client.py:176-194: a call of decode_currents(packet), which
\* reads and changes no field of the client.
DecodeCurrentsCall(packet) ==
  /\ dec' = [pc |-> "returned", packet |-> packet, readings |-> DecodeCurrents(packet)]
  /\ UNCHANGED <<connVars, rxVars, seqVars, energyVars>>

DecodeNext == \E packet \in Packets : DecodeCurrentsCall(packet)

DecodeSpec == Init /\ [][DecodeNext]_vars

\* ---------------------------------------- the fetch, one call after the other
\* The coordinator as the host's scheduler drives it alone: a fetch runs to
\* its end before the next one starts, so a whole _async_update_data is one
\* step.  At most one client is referenced at a time; the object slot 1
\* stands for it, and a newly constructed client re-uses the slot.  Of the
\* client only _connected and connection_status matter here.

\* __init__.py:114-185, run without interruption.  o is what the device
\* does when connect() is called: "ok" (the transport opens and the init
\* command is sent), "refused" (websockets.connect or the send raises).
SeqFetch(o) ==
  /\ failures < MaxCounted
  /\ LET c == 1
         r == IF client = 0 THEN NewClient ELSE cli[c]
         found == [n |-> failures, waited |-> now - last_attempt]
     IN IF ~r.connected
        THEN IF BackoffPending
             THEN \* line 126 raises; lines 171-178 count it and drop the
                  \* client (its disconnect() returns at line 138)
                  /\ failures' = failures + 1
                  /\ client' = 0
                  /\ cli' = [cli EXCEPT ![c] = r]
                  /\ seqfetch' = [pc |-> "failed", connect_called |-> FALSE,
                                  n |-> found.n, waited |-> found.waited]
                  /\ UNCHANGED last_attempt
             ELSE /\ last_attempt' = now
                  /\ IF o = "ok"
                     THEN /\ cli' = [cli EXCEPT ![c] =
                                       [r EXCEPT !.connected = TRUE,
                                                 !.connection_status = CONNECTED]]
                          /\ failures' = 0
                          /\ client' = c
                          /\ seqfetch' = [pc |-> "done", connect_called |-> TRUE,
                                          n |-> found.n, waited |-> found.waited]
                     ELSE /\ cli' = [cli EXCEPT ![c] = ConnectExcept(r)]
                          /\ failures' = failures + 1
                          /\ client' = 0
                          /\ seqfetch' = [pc |-> "failed", connect_called |-> TRUE,
                                          n |-> found.n, waited |-> found.waited]
        ELSE \* line 133 on a connected client, then line 136
             /\ failures' = 0
             /\ client' = c
             /\ seqfetch' = [pc |-> "done", connect_called |-> FALSE,
                             n |-> found.n, waited |-> found.waited]
             /\ UNCHANGED <<cli, last_attempt>>
  /\ UNCHANGED <<nclients, now, shutdown, ws, nws, task, call, cur, notified>>
  /\ UNCHANGED <<rxVars, decVars, energyVars>>

\* websocket_client.py:203-210 and 223-232: between two fetches one of the
\* loops of the connected client meets a transport error.
SeqLinkDown ==
  /\ client # 0
  /\ cli[client].connected
  /\ cli' = [cli EXCEPT ![client].connected = FALSE,
                        ![client].connection_status = DISCONNECTED]
  /\ UNCHANGED <<coordVars, ws, nws, task, call, cur, notified>>
  /\ UNCHANGED <<rxVars, auxVars>>

\* The values of time.time() (whole seconds) at which something is looked
\* at: around every power of two, and around the cap.
ClockValues ==
  UNION {{2 ^ i - 1, 2 ^ i} : i \in 0..MaxClockExp}
    \cup {MaxBackoff - 1, MaxBackoff}

\* Time passes between two fetches.
SeqAdvance(t) ==
  /\ t > now
  /\ now' = t
  /\ UNCHANGED <<client, nclients, failures, last_attempt, shutdown,
                 cli, ws, nws, task, call, cur, notified>>
  /\ UNCHANGED <<rxVars, auxVars>>

SeqNext ==
  \/ \E o \in {"ok", "refused"} : SeqFetch(o)
  \/ SeqLinkDown
  \/ \E t \in ClockValues : SeqAdvance(t)

BackoffSpec == Init /\ [][SeqNext]_vars

\* ------------------------------------------ the fetch, called again and again
\* The same fetches, followed for as long as the host keeps calling: the
\* clock and the failure count are unbounded in the program, so they are
\* kept only as far as line 124-125 can tell them apart.  Line 125 uses
\* current_time - _last_connection_attempt alone, so the clock is counted
\* from the last attempt, and only until MaxBackoff seconds have passed,
\* the longest delay line 124 can give; a failure count whose predecessor
\* already gives that longest delay is replaced by its predecessor.
\* RetryWait(t): time passes, to t seconds after the last attempt.
RetryWait(t) ==
  /\ t >= Min(now - last_attempt + 1, MaxBackoff)
  /\ t <= MaxBackoff
  /\ now' = t
  /\ last_attempt' = 0
  /\ failures' = IF failures > 1 /\ BackoffDelay(failures - 1) = MaxBackoff
                 THEN failures - 1
                 ELSE failures
  /\ UNCHANGED <<client, nclients, shutdown, cli, ws, nws, task, call, cur, notified>>
  /\ UNCHANGED <<rxVars, auxVars>>

RetryNext ==
  \/ \E o \in {"ok", "refused"} : SeqFetch(o)
  \/ SeqLinkDown
  \/ \E t \in ClockValues : RetryWait(t)

\* The host calls _async_update_data every update_interval (__init__.py:105)
\* for as long as the entry is loaded, and time passes.
RetrySpec ==
  /\ Init /\ [][RetryNext]_vars
  /\ WF_vars(\E o \in {"ok", "refused"} : SeqFetch(o))
  /\ WF_vars(\E t \in ClockValues : RetryWait(t))

\* ------------------------------------------------------- the energy sensor
\* sensor.py:367-380  _get_power_value: current * voltage (tenths of a watt:
\* tenths of an ampere times volts), None while the coordinator has no data.
GetPowerValue(h) ==
  IF h.data = None THEN None ELSE Some(h.data[1] * h.voltage)

\* Mutant of EnergyDelta: the test "current_time > self._last_update_time"
\* is missing.
EnergyDeltaAnyOrder(last_time, last_power, current_time, current_power) ==
  (last_power + current_power) * (current_time - last_time)

\* Mutant of EnergyDelta: the rectangle rule, with the previous power alone.
EnergyDeltaRectangle(last_time, last_power, current_time, current_power) ==
  IF current_time > last_time
  THEN 2 * last_power * (current_time - last_time)
  ELSE 0

\* sensor.py:345-359: the energy added by a sample that follows a stored one
\* (trapezoidal rule), nothing unless the clock has advanced.
EnergyDelta(last_time, last_power, current_time, current_power) ==
  IF current_time > last_time
  THEN (last_power + current_power) * (current_time - last_time)
  ELSE 0

\* Mutant of NativeValue: a sample that adds nothing replaces the stored
\* time and keeps the stored power.
NativeValueKeepsStalePower ==
  /\ sensor.energy_total < MaxTotal * KWH
  /\ LET current_power == GetPowerValue(hass) IN
     IF current_power = None
     THEN UNCHANGED sensor
     ELSE LET delta == IF sensor.last_update_time # None
                          /\ sensor.last_power_value # None
                       THEN EnergyDelta(sensor.last_update_time[1],
                                        sensor.last_power_value[1],
                                        hass.time, current_power[1])
                       ELSE 0
          IN sensor' = [sensor EXCEPT !.energy_total = @ + delta,
                                      !.last_update_time = Some(hass.time),
                                      !.last_power_value =
                                         IF delta = 0 /\ @ # None THEN @
                                         ELSE current_power]
  /\ UNCHANGED hass
  /\ UNCHANGED <<connVars, rxVars, decVars, seqVars>>

\* sensor.py:331-365  native_value: one sample.
NativeValue ==
  /\ sensor.energy_total < MaxTotal * KWH
  /\ LET current_power == GetPowerValue(hass) IN
     IF current_power = None
     THEN UNCHANGED sensor
     ELSE LET delta == IF sensor.last_update_time # None
                          /\ sensor.last_power_value # None
                       THEN EnergyDelta(sensor.last_update_time[1],
                                        sensor.last_power_value[1],
                                        hass.time, current_power[1])
                       ELSE 0
          IN sensor' = [sensor EXCEPT !.energy_total = @ + delta,
                                      !.last_update_time = Some(hass.time),
                                      !.last_power_value = current_power]
  /\ UNCHANGED hass
  /\ UNCHANGED <<connVars, rxVars, decVars, seqVars>>

\* What async_get_last_state() returns: nothing, a state that is not a
\* reading, a number (in kWh, here in units), or a text that is no number.
OldStates ==
  { [state |-> "none"], [state |-> "unavailable"], [state |-> "unknown"],
    [state |-> "number", value |-> KWH \div 2 + 7], [state |-> "text"] }

\* sensor.py:309-329  _restore_energy_state (called by async_added_to_hass).
RestoreEnergyState(old_state) ==
  /\ ~sensor.restored_state
  /\ sensor' = [sensor EXCEPT
                  !.energy_total =
                     IF old_state.state = "number" THEN old_state.value
                     ELSE IF old_state.state = "text" THEN 0
                     ELSE @,
                  !.restored_state = TRUE]
  /\ UNCHANGED hass
  /\ UNCHANGED <<connVars, rxVars, decVars, seqVars>>

\* The currents a fetch reports (tenths of an ampere).
SampleCurrents == {0, 40, 125}

\* A fetch of the coordinator succeeds and coordinator.data is its result
\* (__init__.py:139-169; of the result the sensor reads the current alone).
RefreshOk(current) ==
  /\ hass' = [hass EXCEPT !.data = Some(current), !.last_update_success = TRUE]
  /\ hass' # hass
  /\ UNCHANGED sensor
  /\ UNCHANGED <<connVars, rxVars, decVars, seqVars>>

\* A fetch fails (__init__.py:185): coordinator.data keeps the last result.
RefreshFailed ==
  /\ hass.last_update_success
  /\ hass' = [hass EXCEPT !.last_update_success = FALSE]
  /\ UNCHANGED sensor
  /\ UNCHANGED <<connVars, rxVars, decVars, seqVars>>

\* What time.time() shows: the clock can be set back as well as forward.
EnergyTimes == {3600 * h : h \in 0..MaxHours}

ClockSet(t) ==
  /\ t # hass.time
  /\ hass' = [hass EXCEPT !.time = t]
  /\ UNCHANGED sensor
  /\ UNCHANGED <<connVars, rxVars, decVars, seqVars>>

\* config_flow.py:43-45 and 234-236: the voltage of the entry is set (100 to
\* 400 V); _get_power_value reads it at every sample.
Voltages == {DEFAULT_VOLTAGE, 250}

SetVoltage(v) ==
  /\ v # hass.voltage
  /\ hass' = [hass EXCEPT !.voltage = v]
  /\ UNCHANGED sensor
  /\ UNCHANGED <<connVars, rxVars, decVars, seqVars>>

EnergyNext ==
  \/ NativeValue
  \/ \E old_state \in OldStates : RestoreEnergyState(old_state)
  \/ \E current \in SampleCurrents : RefreshOk(current)
  \/ RefreshFailed
  \/ \E t \in EnergyTimes : ClockSet(t)
  \/ \E v \in Voltages : SetVoltage(v)

EnergySpec == Init /\ [][EnergyNext]_vars

\* ===================================================================== claims
\* Loop tasks that can still run code of the loop.
Running == {"ready", "send", "start", "recv", "lock"}

InDisconnectWait(k) == call[k].pc \in {"d_wait1", "d_wait2", "d_close"}

\* C1: whenever disconnect() was called on a connected client, then when it
\* returns both loop tasks have been cancelled or have ended, the task
\* references are cleared, the transport was asked to close, the transport
\* reference is None and connection_status is Disconnected.
C1_DisconnectTearsDown ==
  \A k \in Callers :
    (call[k].pc = "d_ret" /\ call[k].was_connected) =>
      LET c == call[k].self
          p == call[k].tasks_to_cancel[1]
          m == call[k].tasks_to_cancel[2]
      IN /\ cli[c].ping_task = 0
         /\ cli[c].message_task = 0
         /\ cli[c].websocket = 0
         /\ cli[c].connection_status = DISCONNECTED
         /\ p # 0 => task[p].ping \notin Running
         /\ m # 0 => task[m].msg \notin Running
         /\ call[k].w # 0 => ws[call[k].w].state \in {"closing", "closed"}

\* C2: when connect() raises (the open or the init send failed), the client
\* is Disconnected and is_connected is false at that moment.
C2_ConnectFailureDisconnected ==
  \A k \in Callers :
    call[k].pc = "c_raised" =>
      /\ ~cli[call[k].self].connected
      /\ cli[call[k].self].connection_status = DISCONNECTED

C2_Witness ==
  \E k \in Callers : call[k].pc = "c_raised" /\ call[k].err = "init"

\* C3: connection_status changes only along Disconnected->Connecting,
\* Connecting->Connected, Connecting->Disconnected, Connected->Disconnected.
AllowedTransitions ==
  { <<DISCONNECTED, CONNECTING>>, <<CONNECTING, CONNECTED>>,
    <<CONNECTING, DISCONNECTED>>, <<CONNECTED, DISCONNECTED>> }

C3_StatusTransitions ==
  [][\A c \in Clients :
       cli'[c].connection_status # cli[c].connection_status =>
         <<cli[c].connection_status, cli'[c].connection_status>> \in AllowedTransitions]_vars

\* The poll loop of transport w ends in this step because its send raised.
PingExitsOnError(w) ==
  /\ task'[w].ping = "done"
  /\ \/ task[w].ping = "send"
     \/ /\ task[w].ping = "ready"
        /\ cli[ws[w].owner].connected
        /\ cli[ws[w].owner].websocket # 0

\* C4: when a send of the poll loop fails, the loop ends and the client is
\* Disconnected with is_connected false.
C4_PollFailureDisconnects ==
  [][\A w \in Transports :
       PingExitsOnError(w) =>
         /\ ~cli'[ws[w].owner].connected
         /\ cli'[ws[w].owner].connection_status = DISCONNECTED]_vars

\* C5: when the inbound stream of the receive loop ends (by an error or by a
\* close, clean or not), the loop exits with the client Disconnected and
\* is_connected false.
C5_ReceiveExitDisconnects ==
  [][\A w \in Transports :
       (task[w].msg = "recv" /\ task'[w].msg = "done") =>
         /\ ~cli'[ws[w].owner].connected
         /\ cli'[ws[w].owner].connection_status = DISCONNECTED]_vars

\* The connection of client c is fully torn down: no loop task of it can still
\* run, none of its transports is open, and it references no transport.
TornDown(c) ==
  /\ cli[c].websocket = 0
  /\ \A w \in Transports :
       ws[w].owner = c =>
         /\ ws[w].state # "open"
         /\ task[w].ping \notin Running
         /\ task[w].msg \notin Running

\* C6: once a fetch has surfaced a transport error (it fails for another
\* reason than a pending backoff), the connection of its client is fully
\* torn down.
C6_FailedFetchTornDown ==
  \A k \in Callers :
    (call[k].pc = "f_failed" /\ call[k].err \in {"connect", "init", "not_connected"}) =>
      TornDown(call[k].self)

\* C7: connect() on a client whose is_connected is true opens no transport,
\* sends nothing, starts no loop, changes no client state, notifies nobody and
\* returns; so the second of two concurrent connect() calls, which finds the
\* client connected when it gets the lock, does nothing.
C7_ConnectNoop ==
  [][\A k \in Callers :
       ( /\ call[k].pc \in {"c_call", "c_lock"}
         /\ call'[k].pc \notin {"c_call", "c_lock"}
         /\ cli[call[k].self].connected ) =>
           /\ call'[k].pc = "c_ret"
           /\ cli' = cli /\ ws' = ws /\ nws' = nws /\ task' = task
           /\ notified' = <<>>]_vars

C7_Witness ==
  \E k \in Callers : call[k].pc = "c_ret" /\ call[k].was_connected

\* C8: disconnect() on a client that is not connected (never connected, or
\* already disconnected) changes no client state, issues no status
\* notification and returns normally.
C8_DisconnectIdempotent ==
  [][\A k \in Callers :
       ( /\ call[k].pc = "d_call"
         /\ call'[k].pc # "d_call"
         /\ ~cli[call[k].self].connected ) =>
           /\ call'[k].pc = "d_ret"
           /\ cli' = cli /\ ws' = ws /\ task' = task
           /\ notified' = <<>>]_vars

C8_Witness ==
  \E k \in Callers :
    /\ call[k].pc = "d_ret"
    /\ ~call[k].was_connected
    /\ \A w \in Transports : ws[w].owner # call[k].self

\* C9: disconnect() always terminates: every bounded wait it is suspended in
\* (on a cancelled loop task, on the close of the transport) ends, whether or
\* not the awaited operation ever completes, and disconnect() returns.
C9_DisconnectTerminates ==
  \A k \in Callers : InDisconnectWait(k) ~> (call[k].pc = "d_ret")

\* A disconnect() returns from a wait while the awaited loop task is still
\* cancelling or the close of the transport has not completed: the wait
\* timed out.
C9_Witness ==
  \E k \in Callers :
    /\ call[k].pc = "d_ret"
    /\ call[k].was_connected
    /\ call[k].w # 0
    /\ \/ ws[call[k].w].state = "closing"
       \/ \E w \in Transports : task[w].ping = "cancelling" \/ task[w].msg = "cancelling"

\* C10: get_readings() raises the not-connected error exactly when
\* is_connected is false on entry, and then returns no readings.
C10_NotConnectedRaises ==
  \A k \in Callers :
    /\ call[k].pc \in {"g_lock", "g_ret"} => call[k].was_connected
    /\ call[k].pc = "g_raised" => (~call[k].was_connected /\ call[k].data = 0)

C10_Witness ==
  \E k \in Callers : call[k].pc = "g_raised" /\ ~call[k].was_connected

FetchNotTornOnSameClient ==
  \A k \in Callers :
    (call[k].pc = "f_done" /\ client = call[k].self) =>
       /\ call[k].result[1] = call[k].result[2]
       /\ call[k].result = <<cli[client].latest_readings, cli[client].load_status>>

\* ------------------------------------------------- claims on frame processing
\* The last message the receive loop took was a readings frame (13 bytes or
\* more) and the loop is done with it.
ReadingsProcessed ==
  /\ rx.pc = "recv"
  /\ rx.message.kind = "binary"
  /\ Len(rx.message.data) >= 13

\* C12: at every suspension point of the receive loop, after any sequence of
\* inbound messages, load_status holds exactly 3 LoadState entries, indexed
\* 0..2 (1..3 here).
C12_ThreeLoadStates ==
  /\ Len(rxcli.load_status) = 3
  /\ DOMAIN rxcli.load_status = 1..3
  /\ \A i \in DOMAIN rxcli.load_status :
       DOMAIN rxcli.load_status[i] = {"status", "remaining_time"}

\* The loop is suspended inside the processing of a readings frame (waiting
\* for the lock), after an earlier readings frame had replaced load_status.
C12_Witness ==
  /\ rx.pc = "lock"
  /\ Len(rx.message.data) >= 13
  /\ \E i \in 1..3 : rxcli.load_status[i].status # OFF

\* C13: each LoadState's remaining_time is null or an integer >= 0, and it is
\* non-null exactly when the status is WaitOff or WaitOn.
C13_RemainingTime ==
  \A i \in 1..3 :
    LET ls == rxcli.load_status[i] IN
    /\ ls.remaining_time = None
         \/ (Len(ls.remaining_time) = 1 /\ ls.remaining_time[1] >= 0)
    /\ ls.remaining_time # None <=> ls.status \in {WAIT_OFF, WAIT_ON}

\* A load is in WaitOff with a counter beyond its turn-off delay: the
\* difference is negative and remaining_time is 0.
C13_Witness ==
  /\ ReadingsProcessed
  /\ \E i \in 1..3 :
       /\ rxcli.load_status[i] = [status |-> WAIT_OFF, remaining_time |-> Some(0)]
       /\ U16(rx.message.data, 4 + 2 * (i - 1)) > rxcli.settings.loads[i].turn_off_delay

\* The status byte and the counter of load i (1..3) in a readings frame.
StatusByte(data, i) == data[10 + i]
Counter(data, i) == data[3 + 2 * i] + 256 * data[4 + 2 * i]

C15_StatusOfByte ==
  ReadingsProcessed =>
    \A i \in 1..3 :
      LET b == StatusByte(rx.message.data, i) IN
      rxcli.load_status[i].status =
        CASE b = 0 -> OFF [] b = 1 -> ON [] b = 2 -> WAIT_OFF [] b = 3 -> WAIT_ON
          [] OTHER -> OFF

\* A frame with the status bytes 3, 4 and 255 has been processed.
C15_Witness ==
  /\ ReadingsProcessed
  /\ \E i, j, k \in 1..3 :
       /\ StatusByte(rx.message.data, i) = 3
       /\ StatusByte(rx.message.data, j) = 4
       /\ StatusByte(rx.message.data, k) = 255
       /\ rxcli.load_status[j].status = OFF
       /\ rxcli.load_status[k].status = OFF

C17_LegacyFrameKeepsLoadStates ==
  [][ /\ (rx.pc = "recv" /\ rx'.message.kind = "binary"
            /\ Len(rx'.message.data) = PACKET_SIZE) =>
           /\ rxcli'.current_readings = DecodeCurrents(rx'.message.data)
           /\ rxcli'.load_status = rxcli.load_status
      /\ (rx.pc = "lock" /\ Len(rx.message.data) = PACKET_SIZE) =>
           rxcli'.load_status = rxcli.load_status
    ]_vars

\* C18: for every 12-byte frame the Settings installed have
\* main_supply_breaker = byte 0, load k = {load_breaker: byte 3k+1,
\* turn_on_delay: byte 3k+2, turn_off_delay: byte 3k+3}, active_ch = byte 10,
\* ct_index = byte 11, scale = 1 and ct_rating = 100 * (ct_index + 1).
\* (Byte n of the frame is data[n + 1] here.)
C18_SettingsDecoded ==
  (rx.pc = "recv" /\ rx.message.kind = "binary" /\ Len(rx.message.data) = 12) =>
    LET d == rx.message.data
        st == rxcli.settings
    IN /\ st.main_supply_breaker = d[1]
       /\ \A k \in 0..2 :
            /\ st.loads[k + 1].load_breaker = d[3 * k + 2]
            /\ st.loads[k + 1].turn_on_delay = d[3 * k + 3]
            /\ st.loads[k + 1].turn_off_delay = d[3 * k + 4]
       /\ Len(st.loads) = 3
       /\ st.active_ch = d[11]
       /\ st.ct_index = d[12]
       /\ st.scale = 1
       /\ st.ct_rating = 100 * (d[12] + 1)

\* A settings frame with a different byte at every offset has been installed.
C18_Witness ==
  /\ rx.pc = "recv"
  /\ rx.message.kind = "binary"
  /\ Len(rx.message.data) = 12
  /\ \A i, j \in 1..12 : i # j => rx.message.data[i] # rx.message.data[j]
  /\ rxcli.settings.ct_rating = 100 * (rx.message.data[12] + 1)
  /\ rxcli.settings.ct_rating > 100

\* t tenths is the square root of raw rounded to one decimal.
IsRoundedSqrt(t, raw) ==
  /\ t >= 0
  /\ 400 * raw < (2 * t + 1) * (2 * t + 1)
  /\ t = 0 \/ 400 * raw > (2 * t - 1) * (2 * t - 1)

\* The raw value at bytes n, n+1 of the frame (little-endian).
RawAt(data, n) == data[n + 1] + 256 * data[n + 2]

\* C19: after a readings frame of 13 or more bytes, ct1 and ct2 are the
\* square roots of the little-endian uint16 at bytes 0-1 and 2-3, rounded to
\* one decimal (900 -> 30.0, 625 -> 25.0, 0 -> 0.0), and the dict that
\* get_readings() returns holds the same pair.
C19_SqrtDecoding ==
  ReadingsProcessed =>
    LET d == rx.message.data
        cr == rxcli.current_readings
    IN /\ IsRoundedSqrt(cr.ct1, RawAt(d, 0))
       /\ IsRoundedSqrt(cr.ct2, RawAt(d, 2))
       /\ RawAt(d, 0) = 900 => cr.ct1 = 300
       /\ RawAt(d, 0) = 625 => cr.ct1 = 250
       /\ RawAt(d, 0) = 0 => cr.ct1 = 0
       /\ rxcli.latest_readings = [ct1 |-> cr.ct1, ct2 |-> cr.ct2]

\* A frame with raw values 900 and 2 has been processed: 30.0 A and 1.4 A.
C19_Witness ==
  /\ ReadingsProcessed
  /\ RawAt(rx.message.data, 0) = 900
  /\ RawAt(rx.message.data, 2) = 2
  /\ rxcli.latest_readings = [ct1 |-> 300, ct2 |-> 14]

\* C20: no inbound message aborts the stream: whatever binary frame or
\* non-binary message arrives, nothing is raised out of the receive loop, the
\* loop goes on to the next message and the connection stays Connected.
C20_NoMessageAbortsLoop ==
  /\ rx.pc \in {"recv", "lock"}
  /\ rxcli.connected
  /\ rxcli.connection_status = CONNECTED

\* The loop is waiting for the next message after a frame of fewer than 12
\* bytes, or after a non-binary message.
C20_Witness ==
  /\ rx.pc = "recv"
  /\ rxcli.connected
  /\ \/ rx.message.kind = "text"
     \/ rx.message.kind = "binary" /\ Len(rx.message.data) \in 1..11
\* ------------------------------------------------ claims on decode_currents
\* C21: decode_currents on a packet of any length other than 14 (5 bytes, for
\* example) does not raise and returns the zero-current result
\* {ct1: 0.0, ct2: 0.0}.
C21_MalformedLengthZero ==
  (dec.pc # "idle" /\ Len(dec.packet) # PACKET_SIZE) =>
    /\ dec.pc = "returned"
    /\ dec.readings = [ct1 |-> 0, ct2 |-> 0]

\* A 5-byte packet whose first four bytes hold non-zero raw currents was
\* decoded.
C21_Witness ==
  /\ dec.pc = "returned"
  /\ Len(dec.packet) = 5
  /\ U16(dec.packet, 0) > 0
  /\ U16(dec.packet, 2) > 0


\* ------------------------------------------------ claims on outbound messages
\* C22: on every transport opened by connect() the first outbound message is
\* the single byte 105, sent exactly once and before any request byte; every
\* other outbound message on the transport is the single byte 103; nothing
\* else is ever sent.  Three parts, for every step: the send started by
\* connect() is <<105>> and is the first on its transport; a send started by
\* the poll loop is <<103>> on a transport whose first message was <<105>>;
\* every transport that exists got <<105>> as its first message.
C22_OutboundMessages ==
  [][ /\ \A k \in Callers :
           (call[k].pc # "c_init" /\ call'[k].pc = "c_init") =>
             /\ call'[k].cmd = <<105>>
             /\ ws[call'[k].w].first = <<>>
             /\ ws'[call'[k].w].first = <<105>>
      /\ \A x \in Transports :
           (task[x].ping # "send" /\ task'[x].ping = "send") =>
             /\ task'[x].ping_msg = <<103>>
             /\ ws[task'[x].ping_ws].first = <<105>>
      /\ \A w \in Transports :
           /\ ws'[w].state # "none" => ws'[w].first = <<105>>
           /\ ws'[w].state = "none" => ws'[w].first = <<>>
           /\ ws[w].first # <<>> => ws'[w].first = ws[w].first
    ]_vars

\* A poll loop started for an earlier transport is sending the request byte
\* on the transport a later connect() of the same client opened.
C22_Witness ==
  \E x \in Transports :
    /\ task[x].ping = "send"
    /\ task[x].ping_msg = <<103>>
    /\ task[x].ping_ws # x
    /\ ws[task[x].ping_ws].first = <<105>>
\* ------------------------------------------------------ claims on the backoff
\* The step is a fetch: it counts a failure or leaves a new record.  (A fetch
\* that changes neither found a connected client and no failure counted.)
IsSeqFetch == failures' # failures \/ seqfetch' # seqfetch

\* C23: a fetch that finds the client not connected and n >= 1 failures
\* counted since the last successful fetch calls connect() only if at least
\* min(2^(n-1), 300) seconds have passed since the last connect attempt, and
\* otherwise fails without calling connect(); the delay doubles with each
\* counted failure (every failed fetch counts one more, and the delay is a
\* function of the count) and never exceeds 300 s (waiting 300 s is always
\* enough); a successful fetch resets the count to 0.
C23_Backoff ==
  [][IsSeqFetch =>
       LET n == failures
           waited == now - last_attempt
           delay == IF 2 ^ (n - 1) < 300 THEN 2 ^ (n - 1) ELSE 300
       IN /\ ((client = 0 \/ ~cli[client].connected) /\ n >= 1) =>
               /\ seqfetch'.connect_called <=> waited >= delay
               /\ waited < delay => seqfetch'.pc = "failed"
               /\ seqfetch'.pc = "failed" => failures' = n + 1
          /\ seqfetch'.pc = "done" => failures' = 0
    ]_vars

\* With 10 failures counted, a fetch 299 s after the last attempt was
\* rejected without a connect, and a later one, 300 s after it, connected
\* (with an uncapped delay it would have waited 512 s).
C23_Witness ==
  /\ seqfetch.pc = "done"
  /\ seqfetch.connect_called
  /\ seqfetch.n >= 10
  /\ seqfetch.waited = 300


C25_LazyConnect ==
  [][\A k \in Callers :
       /\ (call[k].pc = "idle" /\ call'[k].op = "fetch") =>
            LET pending == /\ failures > 0
                           /\ now - last_attempt <
                                (IF 2 ^ (failures - 1) < 300 THEN 2 ^ (failures - 1) ELSE 300)
            IN /\ client' # 0
               /\ client # 0 => client' = client
               /\ client = 0 => (client' = nclients + 1 /\ cli'[client'] = NewClient)
               /\ (~cli'[client'].connected /\ ~pending) =>
                    (call'[k].pc = "c_call" /\ call'[k].self = client')
               /\ cli'[client'].connected =>
                    (call'[k].pc = "g_call" /\ call'[k].self = client')
               /\ cli' = cli
       /\ (call[k].pc # "g_call" /\ call'[k].pc = "g_call") =>
            \/ call[k].pc = "c_ret"
            \/ call[k].pc = "idle" /\ client # 0 /\ cli[client].connected
       /\ (call[k].pc # "c_call" /\ call'[k].pc = "c_call") =>
            ~cli[call'[k].self].connected
    ]_vars

\* After a failure and the wait of the backoff, a fetch has created a new
\* client and is about to call connect() on it.
C25_Witness ==
  \E k \in Callers :
    /\ call[k].op = "fetch"
    /\ call[k].pc = "c_call"
    /\ call[k].self = client
    /\ failures > 0
    /\ nclients > 1
\* ------------------------------------------------ claims on the energy sensor
\* C26: once the total has been seeded (restored), energy_total never
\* decreases, whatever the samples: any currents, a clock that stands still
\* or is set back, reads after failed fetches.
C26_EnergyNeverDecreases ==
  [][sensor.restored_state => sensor'.energy_total >= sensor.energy_total]_vars

\* The total was seeded with a number and has grown since; the last sample
\* was taken with the clock set back to 0 and after a failed fetch.
C26_Witness ==
  /\ sensor.restored_state
  /\ sensor.energy_total % 100 = 7
  /\ sensor.energy_total > KWH \div 2 + 7
  /\ sensor.last_update_time = Some(0)
  /\ ~hass.last_update_success

\* The step is a sample (a read of native_value) that changes the sensor.
IsSample ==
  /\ hass' = hass
  /\ sensor' # sensor
  /\ sensor'.restored_state = sensor.restored_state

\* C27: a sample at t2 with power P2 that follows a stored sample (t1, P1),
\* t2 > t1, adds exactly ((P1 + P2) / 2) * ((t2 - t1) / 3600) / 1000 kWh,
\* which is (P1 + P2) * (t2 - t1) units of 1/72,000,000 kWh with the powers
\* in tenths of a watt; samples (t = 0, 1000 W) and (t = 3600, 1000 W) from
\* total 0 give 1.0 kWh.
C27_TrapezoidalIncrement ==
  [][(IsSample /\ sensor.last_update_time # None /\ sensor.last_power_value # None
        /\ hass.data # None /\ hass.time > sensor.last_update_time[1]) =>
       LET t1 == sensor.last_update_time[1]
           P1 == sensor.last_power_value[1]
           t2 == hass.time
           P2 == hass.data[1] * hass.voltage
       IN /\ sensor'.energy_total - sensor.energy_total = (P1 + P2) * (t2 - t1)
          /\ (sensor.energy_total = 0 /\ t1 = 0 /\ t2 = 3600
                /\ P1 = 10000 /\ P2 = 10000) => sensor'.energy_total = KWH
    ]_vars

\* One hour at 1000 W (4.0 A at 250 V) has been integrated: 1.0 kWh.
C27_Witness ==
  /\ sensor.energy_total = KWH
  /\ sensor.last_update_time = Some(3600)
  /\ sensor.last_power_value = Some(10000)

\* ------------------------------------------- claims on the values handed out
\* The contents of a value handed to a caller.
Contents(out) == [p \in DOMAIN out |-> out[p].val]

\* The step is a return of get_state_dict() or get_readings().
IsReturn == snap'.quiet /\ snap'.last # <<>>

C29_InitBeforeConnected ==
  [][\A k \in Callers :
       LET c == call[k].self IN
       /\ (call[k].cmd = <<>> /\ call'[k].cmd = SendCommand(105)) =>
            /\ cli'[c].connection_status = CONNECTING
            /\ notified' # <<c, CONNECTED>>
       /\ (call[k].pc = "c_init" /\ call'[k].pc = "c_ret") =>
            /\ cli'[c].connection_status = CONNECTED
            /\ task'[call[k].w].ping = "ready"
            /\ task'[call[k].w].msg = "start"
    ]_vars

\* The device state a client holds.
DeviceState(r) == <<r.current_readings, r.latest_readings, r.load_status>>

\* C30: inbound frames change the device state only while the client is
\* connected: once is_connected is false, no step of the client's loops
\* (the steps that leave every caller where it is) changes the device state.
C30_FramesOnlyWhileConnected ==
  [][\A c \in Clients :
       (~cli[c].connected /\ call' = call) =>
         DeviceState(cli'[c]) = DeviceState(cli[c])
    ]_vars

\* ------------------------------------------------- claims on the two flags
\* Caller k is inside connect() or disconnect() of client c.
InConnectOrDisconnect(k, c) ==
  /\ call[k].self = c
  /\ call[k].pc \in {"c_lock", "c_open", "c_init", "d_wait1", "d_wait2", "d_close"}

\* C31: whenever no connect() and no disconnect() of a client is in
\* progress, is_connected is true exactly when connection_status is
\* Connected.
C31_FlagAgreesWithStatus ==
  \A c \in Clients :
    (\A k \in Callers : ~InConnectOrDisconnect(k, c)) =>
      (cli[c].connected <=> cli[c].connection_status = CONNECTED)

\* ------------------------------------------------- claims on the two loops
\* The poll loops, the receive loops and the open transports of client c.
PollLoopsOf(c) == {w \in Transports : ws[w].owner = c /\ task[w].ping \in Running}
ReceiveLoopsOf(c) == {w \in Transports : ws[w].owner = c /\ task[w].msg \in Running}
OpenTransportsOf(c) == {w \in Transports : ws[w].owner = c /\ ws[w].state = "open"}

\* Client by client: at most one poll loop, one receive loop, one open
\* transport.
AtMostOneOfEach ==
  \A c \in Clients :
    /\ Cardinality(PollLoopsOf(c)) <= 1
    /\ Cardinality(ReceiveLoopsOf(c)) <= 1
    /\ Cardinality(OpenTransportsOf(c)) <= 1

\* A step of a loop that was started for transport w, taken when its client
\* holds a later transport, leaves that client's connection state alone.
OldLoopIsHarmless ==
  \A w \in Transports :
    LET c == ws[w].owner IN
    (task'[w] # task[w] /\ call' = call /\ c # 0 /\ cli[c].websocket > w) =>
      /\ cli'[c].connected = cli[c].connected
      /\ cli'[c].connection_status = cli[c].connection_status

\* C32: for every client, whatever connect() calls, transport failures,
\* fetches and disconnect() calls have happened, at most one poll loop and
\* at most one receive loop are alive and at most one transport is open,
\* and a loop started for an earlier transport never changes the connection
\* state of a later connection.
C32_OneConnectionAtATime == []AtMostOneOfEach /\ [][OldLoopIsHarmless]_vars


\* ---------------------------------------------------- claims on the shutdown
\* Fetch k is about to raise UpdateFailed, in the segment that began when its
\* connect() returned: connect() had opened transport call[k].w, and line 133
\* found the coordinator's client reference gone.  With async_shutdown()
\* called, this is a fetch that was suspended inside connect() while the
\* shutdown ran: no fetch starts after the shutdown, and before this segment
\* the fetch was inside connect() from its first suspension on.
FetchOutlivedShutdown(k) ==
  /\ shutdown
  /\ call[k].op = "fetch"
  /\ call[k].pc = "f_failed"
  /\ call[k].err = "attribute"
  /\ ~call[k].was_connected
  /\ call[k].w # 0

\* C33: if async_shutdown() runs while a fetch is suspended inside connect(),
\* then once both have finished no client is left with a running poll or
\* receive loop or with an open transport: when such a fetch ends and the
\* shutdown has returned, the transport the fetch opened is not open and
\* neither of its loops is alive.
C33_ShutdownReleases ==
  \A k \in Callers :
    (FetchOutlivedShutdown(k) /\ \A j \in Callers \ {k} : call[j].pc = "idle") =>
      LET w == call[k].w IN
      /\ ws[w].state # "open"
      /\ task[w].ping \notin Running
      /\ task[w].msg \notin Running

\* C34: when connect() raises, the client holds no open transport: a
\* transport opened before the failure has been asked to close, and the
\* transport reference is None.
C34_FailedConnectHoldsNoTransport ==
  \A k \in Callers :
    call[k].pc = "c_raised" =>
      /\ cli[call[k].self].websocket = 0
      /\ call[k].w # 0 => ws[call[k].w].state \in {"closing", "closed"}

\* ------------------------------------------------ claims on the failure count
\* Caller k's fetch enters its except block in this step.
FetchFails(k) ==
  /\ call[k].pc \in {"f_except", "c_raised", "g_raised"}
  /\ call'[k].pc # call[k].pc

\* C35: the failure count increases by exactly one for each failed connect
\* attempt and for each failed read, by nothing else, and a fetch that is
\* rejected only because the backoff delay has not elapsed leaves it
\* unchanged.
C35_FailureCount ==
  [][ /\ \A k \in Callers :
           FetchFails(k) =>
             failures' = IF call[k].err = "backoff" THEN failures ELSE failures + 1
      /\ failures' > failures => \E k \in Callers : FetchFails(k)
    ]_vars

\* ------------------------------------------------- claims on reconnection
\* The last fetch called connect() and the device refused.
Refused == seqfetch.pc = "failed" /\ seqfetch.connect_called

\* The last fetch succeeded and no failure is counted.
FetchSucceeded == seqfetch.pc = "done" /\ failures = 0

\* C36: if from some point on the device accepts every connection, then,
\* with fetches that keep being called while time passes, fetches succeed
\* again and again with the failure count back at 0: no backoff blocks the
\* reconnection forever.
C36_ReconnectsEventually == (<>[](~Refused)) => []<>FetchSucceeded

\* A fetch connected after the longest backoff delay had run for a count of
\* failures beyond the cap, and the count is back at 0.
C36_Witness ==
  /\ FetchSucceeded
  /\ seqfetch.connect_called
  /\ seqfetch.n > 0
  /\ BackoffDelay(seqfetch.n) = MaxBackoff
  /\ seqfetch.waited = MaxBackoff
  /\ last_attempt = now


\* ------------------------------------------------- claims on the settings
\* C37: in every reachable state, after any 12-byte frame too, active_ch is
\* in 1..3, ct_index is in 0..2, ct_rating is 100, 200 or 300, and there are
\* exactly 3 load configurations.
C37_SettingsInRange ==
  /\ rxcli.settings.active_ch \in 1..3
  /\ rxcli.settings.ct_index \in 0..2
  /\ rxcli.settings.ct_rating \in {100, 200, 300}
  /\ Len(rxcli.settings.loads) = 3

\* ------------------------------------------- claims on the frame callbacks
\* C38: each processed frame triggers exactly one notification of the
\* matching kind, issued after the state update and with the updated values:
\* a 12-byte frame calls on_settings_update with the new Settings, a frame of
\* 13 or more bytes calls on_current_reading with the new CurrentReadings and
\* the 3 new LoadStates, once its load states are in place and not before,
\* and a frame that is ignored, like a text message, triggers none.
C38_OneNotificationPerFrame ==
  [][ /\ rx.pc = "recv" =>
           LET m == rx'.message
               data == m.data
           IN /\ (m.kind = "binary" /\ Len(data) = 12) =>
                   rxnote' = <<[kind |-> "settings", settings |-> DecodeSettings(data)]>>
              /\ (m.kind = "binary" /\ Len(data) >= 13 /\ rx'.pc = "recv") =>
                   rxnote' = <<[kind |-> "reading",
                                current_readings |-> DecodeReadings(data),
                                load_status |-> DecodeLoadStatus(data, rxcli.settings)]>>
              /\ (m.kind = "binary" /\ Len(data) >= 13 /\ rx'.pc = "lock") =>
                   rxnote' = <<>>
              /\ (m.kind # "binary" \/ Len(data) < 12) => rxnote' = <<>>
      /\ rx.pc = "lock" =>
           rxnote' = <<[kind |-> "reading",
                        current_readings |-> DecodeReadings(rx.message.data),
                        load_status |-> DecodeLoadStatus(rx.message.data, rxcli.settings)]>>
      /\ rxnote' # <<>> =>
           /\ rxnote'[1].kind = "settings" => rxnote'[1].settings = rxcli'.settings
           /\ rxnote'[1].kind = "reading" =>
                /\ rxnote'[1].current_readings = rxcli'.current_readings
                /\ rxnote'[1].load_status = rxcli'.load_status
                /\ Len(rxnote'[1].load_status) = 3
    ]_vars

\* A readings frame has been finished: the observers were told of readings
\* and load states that differ from those of a new client.
C38_Witness ==
  /\ rx.pc = "recv"
  /\ Len(rxnote) = 1
  /\ rxnote[1].kind = "reading"
  /\ rxnote[1].current_readings # NewRxClient.current_readings
  /\ rxnote[1].load_status # NewRxClient.load_status
  /\ rxnote[1].load_status = rxcli.load_status


\* ------------------------------------------- claims on the stored sample
\* The step is a read of native_value with data to sample.
IsRead == hass' = hass /\ sensor'.restored_state = sensor.restored_state /\ hass.data # None

\* C39: a sample that finds no stored pair, and a sample whose time is not
\* strictly later than the stored one, leave energy_total unchanged and
\* still replace the stored (time, power) pair by the current sample.
C39_StoredPairAlwaysReplaced ==
  [][(IsRead /\ sensor.energy_total < MaxTotal * KWH
        /\ (sensor.last_update_time = None \/ hass.time <= sensor.last_update_time[1])) =>
       /\ sensor'.energy_total = sensor.energy_total
       /\ sensor'.last_update_time = Some(hass.time)
       /\ sensor'.last_power_value = Some(hass.data[1] * hass.voltage)
    ]_vars

\* Energy was integrated up to a later time; then the clock was set back to
\* 0 and a sample with another power was taken there: the stored pair is
\* that sample.
C39_Witness ==
  /\ ~sensor.restored_state
  /\ sensor.energy_total > 0
  /\ sensor.last_update_time = Some(0)
  /\ sensor.last_power_value = Some(125 * 250)
  /\ hass.time = 0

\* ------------------------------------------------- claims on the restore
\* The prior totals a restore can find.
PriorTotals == {o.value : o \in {s \in OldStates : s.state = "number"}}

====
